---- MODULE Spec2Model ----
(***************************************************************************)
(* The chat gateway of src/src/chat_works/ws.py as a state machine.        *)
(*                                                                         *)
(* Every connection handler (websocket_chat_endpoint) is a process whose   *)
(* position is pc[s].  One step of a process is the effect of the call it  *)
(* is awaiting (a store, cache or bus round trip) followed by the          *)
(* synchronous code up to the next awaited call; frames a handler writes   *)
(* to its own socket are part of the step that issues them.  The           *)
(* background listener of a connection (listen_to_pubsub) is a second      *)
(* process that pops one bus message per step.                             *)
(***************************************************************************)
EXTENDS Integers, Sequences, FiniteSets, Bags, TLC

\* ------------------------------------------------------------- bounds
NSocks == 2        \* sockets (connection attempts) that may ever be opened
MaxEnv == 3        \* inbound frames the clients send in one behaviour
MaxMsgs == 2       \* message.send envelopes among them that pass validation
MaxClock == 1      \* the last value of the wall clock

Users == {"a", "b"}
Socks == 1..NSocks
\* The identities a socket's credential may name.  Identities are
\* interchangeable, so the first socket's is called a.
Claimable(s) == IF s = 1 THEN {"a"} ELSE Users

\* Identifiers.  0 is "no id" (None or the empty string), BadId a string
\* that is no ObjectId; document ids are handed out in increasing order.
NoId == 0
BadId == -1
MsgIds == 1..MaxMsgs
RoomIds == 1..MaxMsgs
NoTime == -1

VARIABLES
    identity,            \* identity[s]: the email of the token payload, "" before the handshake
    clock,               \* datetime.utcnow()
    pc,                  \* pc[s]: position of the handler of socket s
    ws,                  \* ws[s]: "new", "open", "closed" (by the client), "shut" (by the server)
    connid,              \* connid[s]: str(id(websocket)), NoId before connect
    env,                 \* env[s]: the envelope the handler of s is working on
    loc,                 \* loc[s]: the handler's local variables
    active_connections,  \* WebSocketManager.active_connections: the socket under [email][connection_id]
    buckets,             \* the emails that are keys of WebSocketManager.active_connections
    listener,            \* listener[s]: "none", "listening", "stopped"
    inbox,               \* inbox[s]: bus messages the pubsub of s has not yielded yet
    user_status,         \* cache key user_status_<email>
    user_last_seen,      \* cache key user_last_seen_<email>
    list_cache,          \* cache keys user_list:... and message_list:..., with their values
    rooms,               \* the rooms collection
    messages,            \* the messages collection
    frames,              \* frames[s]: bag of the frames written to socket s
    pubs,                \* bag of the publishes made on the bus
    nenv,                \* inbound frames received so far
    nsend,               \* message.send envelopes accepted so far
    endedBy,             \* endedBy[s]: how the handler of s ended
    connectedAt,         \* connectedAt[s]: the clock when s was accepted
    missed,              \* ids of messages whose publish found no subscriber
    owed,                \* owed[s]: missed messages addressed to owner(s) when s was accepted
    overlapped,          \* a message.send began while another one between the same two identities was in progress
    raced                \* a room lookup ran while another send of the pair was between lookup and insert

vars == <<identity, clock, pc, ws, connid, env, loc, active_connections, buckets,
          listener, inbox, user_status, user_last_seen, list_cache, rooms, messages,
          frames, pubs, nenv, nsend, endedBy, connectedAt, missed, owed, overlapped, raced>>

\* ------------------------------------------------------------- values
\* The body of a list response: the user rows or the messages of the page
\* and the paging block; empty in every other frame.  order is the list of
\* the messages as the response carries it.
NoBody == [users |-> {}, msgs |-> {}, order |-> <<>>, paged |-> FALSE, page |-> 0,
           size |-> 0, total |-> 0, pages |-> 0, more |-> FALSE]

\* An envelope: its source and the fields of its data the handlers read;
\* ok says whether the fields the handler requires are all present.
NoEnv == [source |-> "none", ok |-> FALSE, room_id |-> NoId, sender |-> "",
          receiver |-> "", message_id |-> NoId, email |-> "",
          page |-> 0, size |-> 0, search |-> "", paged |-> FALSE]
NoLoc == [room |-> NoId, mid |-> NoId, ts |-> NoTime, pend |-> <<>>, st |-> "",
          n |-> 0, body |-> NoBody]

Frame(kind, id, who, tag) ==
    [kind |-> kind, id |-> id, who |-> who, tag |-> tag, body |-> NoBody]
ErrorFrame(type) == Frame("error", NoId, "", type)

\* The credentials a client may present, and what the handshake makes of each.
Creds == {"valid", "missing", "invalid", "noemail", "inactive"}
AuthErrorActiveUnchecked(cred) ==
    CASE cred \in {"valid", "inactive"} -> "ok"
      [] cred = "missing"  -> "No token provided"
      [] cred = "invalid"  -> "Invalid authentication credentials"
      [] cred = "noemail"  -> "Invalid user data in token"

AuthError(cred) ==
    CASE cred = "valid"    -> "ok"
      [] cred = "missing"  -> "No token provided"
      [] cred = "invalid"  -> "Invalid authentication credentials"
      [] cred = "noemail"  -> "Invalid user data in token"
      [] cred = "inactive" -> "User is inactive"

\* ------------------------------------------------------------ registry
\* email = user.get('email'), line 123.
owner(s) == identity[s]

NoSock == 0
Registered(s) ==
    /\ connid[s] # NoId
    /\ active_connections[owner(s)][connid[s]] = s

RegistryAdd(email, cid, s) ==
    [active_connections EXCEPT ![email][cid] = s]

RegistryRemove(email, cid) ==
    [active_connections EXCEPT ![email][cid] = NoSock]

\* A disconnect that drops the whole bucket of the identity.
ManagerDisconnectAll(s) ==
    IF connid[s] # NoId /\ active_connections[owner(s)][connid[s]] # NoSock
    THEN [active_connections EXCEPT ![owner(s)] = [c \in Socks |-> NoSock]]
    ELSE active_connections

\* manager.disconnect(websocket, email): connection_id is id(websocket).
ManagerDisconnect(s) ==
    IF connid[s] # NoId /\ active_connections[owner(s)][connid[s]] # NoSock
    THEN RegistryRemove(owner(s), connid[s])
    ELSE active_connections

\* manager.disconnect, lines 56-59: the bucket of the identity is deleted
\* when the entry removed was its last.
BucketsAfterDisconnect(s) ==
    IF /\ owner(s) \in buckets
       /\ connid[s] # NoId
       /\ active_connections[owner(s)][connid[s]] # NoSock
    THEN IF \A c \in Socks \ {connid[s]} : active_connections[owner(s)][c] = NoSock
         THEN buckets \ {owner(s)}
         ELSE buckets
    ELSE buckets

\* id(websocket): the address of a live object.  An address is free again
\* once the handler has returned and the registry no longer holds the socket.
ObjectAlive(t) ==
    /\ connid[t] # NoId
    /\ \/ pc[t] # "done"
       \/ \E u \in Users : active_connections[u][connid[t]] = t
FreeIds == {c \in Socks : \A t \in Socks : ObjectAlive(t) => connid[t] # c}

\* ----------------------------------------------------------------- bus
\* Listeners subscribed to the global channel besides their identity's topic.
SubscribersAndGlobal(topic) ==
    {s \in Socks : listener[s] = "listening" /\ (owner(s) = topic \/ topic = "user_updates")}

\* pubsub.subscribe(f"{REDIS_CHANNEL}:{email}"), line 51: the listeners a
\* publish on the topic reaches.  The topic of an identity is named by its
\* email; the bare channel name is the global topic.
Subscribers(topic) == {s \in Socks : listener[s] = "listening" /\ owner(s) = topic}

\* A publish that goes to the global channel whatever the topic.
PublishGlobal(topic, fr) ==
    [s \in Socks |-> IF s \in Subscribers("user_updates") THEN Append(inbox[s], fr)
                     ELSE inbox[s]]

\* redis publish: every pubsub subscribed to the topic gets the message.
Publish(topic, fr) ==
    [s \in Socks |-> IF s \in Subscribers(topic) THEN Append(inbox[s], fr) ELSE inbox[s]]

PubRecord(topic, fr) == [topic |-> topic, fr |-> fr]
Published(topic, fr) == pubs (+) SetToBag({PubRecord(topic, fr)})

\* ------------------------------------------------------------- sockets
\* websocket.send_json / send_text on socket t: what the call may do.  On a
\* socket the server has closed it raises RuntimeError.  On a socket whose
\* client is gone the outcome depends on the ASGI server and on what it has
\* noticed: the frame is dropped silently, or the call raises
\* WebSocketDisconnect ("disc") or another exception ("err").
SendOutcomes(t) ==
    IF ws[t] = "open" THEN {"sent"}
    ELSE IF ws[t] = "shut" THEN {"err"}
    ELSE {"dropped", "disc", "err"}


\* What one step of the handler of s does to the handler's own variables:
\* it moves to position `next` with locals `nloc`; back in the receive loop
\* the envelope and the locals are gone.
Idle == {"loop", "done", "disc_status"}

Goto(s, next, nloc) ==
    /\ pc' = [pc EXCEPT ![s] = next]
    /\ env' = IF next \in Idle THEN [env EXCEPT ![s] = NoEnv] ELSE env
    /\ loc' = [loc EXCEPT ![s] = IF next \in Idle THEN NoLoc ELSE nloc]

\* The handler of s writes the frames of bag `out` to its own socket and goes
\* on to `next`.  A failed write raises.  inLoop: the write is made under
\* handle_message (lines 151-155): its except clauses answer with send_error,
\* which fails the same way, so the exception reaches the receive loop, where
\* WebSocketDisconnect unregisters the connection (157) and any other
\* exception ends the handler at the failing send_error of line 178.  A write
\* of the handshake (139-149) is outside the try and ends the handler at once.
OwnSend(s, out, next, nloc, inLoop) ==
    \E o \in IF out = EmptyBag THEN {"sent"} ELSE SendOutcomes(s) :
    /\ frames' = [frames EXCEPT ![s] = IF o = "sent" THEN @ (+) out ELSE @]
    /\ IF o \in {"sent", "dropped"}
       THEN /\ Goto(s, next, nloc)
            /\ UNCHANGED <<active_connections, buckets, endedBy>>
       ELSE IF o = "disc" /\ inLoop
       THEN /\ Goto(s, "disc_status", NoLoc)
            /\ active_connections' = ManagerDisconnect(s)
            /\ buckets' = BucketsAfterDisconnect(s)
            /\ UNCHANGED endedBy
       ELSE /\ Goto(s, "done", NoLoc)
            /\ UNCHANGED <<active_connections, buckets>>
            /\ endedBy' = [endedBy EXCEPT ![s] = "error"]

\* A step that writes nothing to the socket.
Silent(s, next, nloc) ==
    /\ Goto(s, next, nloc)
    /\ UNCHANGED <<frames, active_connections, buckets, endedBy>>

One(fr) == SetToBag({fr})

cacheVars == <<user_status, user_last_seen, list_cache>>
storeVars == <<rooms, messages>>
busVars == <<inbox, pubs, missed>>
sockVars == <<identity, ws, connid, listener, connectedAt, owed>>
inputVars == <<clock, nenv, nsend, overlapped, raced>>

\* ----------------------------------------------------------- handshake
\* websocket_chat_endpoint, lines 101-130: every failure raises before
\* manager.connect, so the socket is never accepted.
Connect(s, cred, email) ==
    /\ pc[s] = "init"
    /\ IF AuthError(cred) = "ok"
       THEN /\ pc' = [pc EXCEPT ![s] = "accept"]
            /\ identity' = [identity EXCEPT ![s] = email]
            /\ UNCHANGED endedBy
       ELSE /\ pc' = [pc EXCEPT ![s] = "done"]
            /\ identity' = identity
            /\ endedBy' = [endedBy EXCEPT ![s] = "rejected"]
    /\ UNCHANGED <<env, loc, frames, active_connections, buckets>>
    /\ UNCHANGED <<ws, connid, listener, connectedAt, owed>>
    /\ UNCHANGED <<cacheVars, storeVars, busVars, inputVars>>

\* manager.connect, lines 43-47: accept, then register under id(websocket).
\* The id is a fresh address (named s) or the address of a freed socket.
Accept(s) ==
    /\ pc[s] = "accept"
    /\ \E cid \in FreeIds \cap ({s} \cup {connid[t] : t \in Socks}) :
         /\ connid' = [connid EXCEPT ![s] = cid]
         /\ active_connections' = RegistryAdd(owner(s), cid, s)
         /\ buckets' = buckets \cup {owner(s)}
    /\ ws' = [ws EXCEPT ![s] = "open"]
    /\ connectedAt' = [connectedAt EXCEPT ![s] = clock]
    /\ owed' = [owed EXCEPT ![s] =
                  {m \in missed : \E d \in messages : d.id = m /\ d.receiver = owner(s)}]
    /\ pc' = [pc EXCEPT ![s] = "subscribe"]
    /\ UNCHANGED <<env, loc, frames, endedBy, listener, identity>>
    /\ UNCHANGED <<cacheVars, storeVars, busVars, inputVars>>

\* manager.connect, lines 49-52: subscribe to the identity's topic and spawn
\* the listener task.
Subscribe(s) ==
    /\ pc[s] = "subscribe"
    /\ listener' = [listener EXCEPT ![s] = "listening"]
    /\ Silent(s, "set_online", NoLoc)
    /\ UNCHANGED <<identity, ws, connid, connectedAt, owed>>
    /\ UNCHANGED <<cacheVars, storeVars, busVars, inputVars>>

\* The handshake going on without the presence write.
SetOnlineLate(s) ==
    /\ pc[s] = "set_online"
    /\ Silent(s, "set_last_seen", NoLoc)
    /\ UNCHANGED <<user_status, user_last_seen, list_cache, storeVars, busVars,
                   sockVars, inputVars>>

\* line 136
SetOnline(s) ==
    /\ pc[s] = "set_online"
    /\ user_status' = [user_status EXCEPT ![owner(s)] = "online"]
    /\ Silent(s, "set_last_seen", NoLoc)
    /\ UNCHANGED <<user_last_seen, list_cache, storeVars, busVars, sockVars, inputVars>>

\* lines 137-146: write last_seen, then push the connection envelope; line
\* 148 then issues the pending-messages query.
SetLastSeen(s) ==
    /\ pc[s] = "set_last_seen"
    /\ user_last_seen' = [user_last_seen EXCEPT ![owner(s)] = clock]
    /\ OwnSend(s, One(Frame("connection", NoId, owner(s), "connected")),
               "pending_find", NoLoc, FALSE)
    /\ UNCHANGED <<user_status, list_cache, storeVars, busVars, sockVars, inputVars>>

\* The pending filter without its receiver clause.
PendingOfAnyone(email) == {d \in messages : ~d.delivered}

\* send_pending_messages, line 668: the undelivered messages addressed to
\* the identity.
PendingOf(email) == {d \in messages : d.receiver = email /\ ~d.delivered}

\* sort("timestamp", 1): oldest first, messages of one timestamp in the
\* order of their insertion.
RECURSIVE OldestFirst(_)
OldestFirst(S) ==
    IF S = {} THEN <<>>
    ELSE LET d == CHOOSE x \in S : \A y \in S \ {x} :
                    \/ x.timestamp < y.timestamp
                    \/ (x.timestamp = y.timestamp /\ x.id < y.id)
         IN <<d>> \o OldestFirst(S \ {d})

\* send_pending_messages, lines 667-691: the pending messages are read in
\* one query and pushed one after the other in the order of the list, each
\* with delivered = true in its payload; the list of their ids is kept.
PendingFind(s) ==
    /\ pc[s] = "pending_find"
    /\ LET pend == OldestFirst(PendingOf(owner(s)))
           out == SetToBag({Frame("message.send", pend[i].id, pend[i].sender, "replay")
                              : i \in DOMAIN pend})
       IN OwnSend(s, out, IF pend = <<>> THEN "unread" ELSE "pending_update",
                  [NoLoc EXCEPT !.pend = [i \in DOMAIN pend |-> pend[i].id]], FALSE)
    /\ UNCHANGED <<cacheVars, storeVars, busVars, sockVars, inputVars>>

\* send_pending_messages, lines 694-699: update_many on the ids of the list.
PendingUpdate(s) ==
    /\ pc[s] = "pending_update"
    /\ messages' = {IF \E i \in DOMAIN loc[s].pend : loc[s].pend[i] = d.id
                    THEN [d EXCEPT !.delivered = TRUE] ELSE d
                      : d \in messages}
    /\ Silent(s, "unread", NoLoc)
    /\ UNCHANGED <<rooms, cacheVars, busVars, sockVars, inputVars>>

\* receive_unread_message, lines 701-718: the unread summary.  A failed
\* write is caught at 716 and answered with send_error, which fails too.
Unread(s) ==
    /\ pc[s] = "unread"
    /\ OwnSend(s, One(Frame("message.unread", NoId, owner(s), "summary")),
               "loop", NoLoc, FALSE)
    /\ UNCHANGED <<cacheVars, storeVars, busVars, sockVars, inputVars>>

\* ---------------------------------------------------------- disconnect
\* The client closes its end of the socket.
Close(s) ==
    /\ ws[s] = "open"
    /\ ws' = [ws EXCEPT ![s] = "closed"]
    /\ UNCHANGED <<pc, env, loc, frames, active_connections, buckets, endedBy>>
    /\ UNCHANGED <<identity, connid, listener, connectedAt, owed>>
    /\ UNCHANGED <<cacheVars, storeVars, busVars, inputVars>>

\* lines 153, 156-157: receive_json raises WebSocketDisconnect; the
\* connection is unregistered and the status write is issued.
NoticeDisconnect(s) ==
    /\ pc[s] = "loop"
    /\ ws[s] = "closed"
    /\ active_connections' = ManagerDisconnect(s)
    /\ buckets' = BucketsAfterDisconnect(s)
    /\ Goto(s, "disc_status", NoLoc)
    /\ UNCHANGED <<frames, endedBy>>
    /\ UNCHANGED <<cacheVars, storeVars, busVars, sockVars, inputVars>>

\* line 158
DiscStatus(s) ==
    /\ pc[s] = "disc_status"
    /\ user_status' = [user_status EXCEPT ![owner(s)] = "offline"]
    /\ Silent(s, "disc_last_seen", NoLoc)
    /\ UNCHANGED <<user_last_seen, list_cache, storeVars, busVars, sockVars, inputVars>>

\* lines 159-163
DiscLastSeen(s) ==
    /\ pc[s] = "disc_last_seen"
    /\ user_last_seen' = [user_last_seen EXCEPT ![owner(s)] = clock]
    /\ Silent(s, "disc_publish", NoLoc)
    /\ UNCHANGED <<user_status, list_cache, storeVars, busVars, sockVars, inputVars>>

\* lines 164-175: the offline event goes to the global channel
\* REDIS_CHANNEL, which no pubsub of this program subscribes to.
GlobalTopic == "user_updates"

DiscPublish(s) ==
    /\ pc[s] = "disc_publish"
    /\ pubs' = Published(GlobalTopic, Frame("user.status", NoId, owner(s), "offline"))
    /\ inbox' = Publish(GlobalTopic, Frame("user.status", NoId, owner(s), "offline"))
    /\ Goto(s, "done", NoLoc)
    /\ endedBy' = [endedBy EXCEPT ![s] = "disconnect"]
    /\ UNCHANGED <<frames, active_connections, buckets, missed>>
    /\ UNCHANGED <<cacheVars, storeVars, sockVars, inputVars>>

\* lines 153, 176-179: the client sends a frame that is no JSON; receive_json
\* raises, the handler answers server_error, closes the socket and returns.
Garbage(s) ==
    /\ pc[s] = "loop"
    /\ ws[s] = "open"
    /\ nenv < MaxEnv
    /\ nenv' = nenv + 1
    /\ frames' = [frames EXCEPT ![s] = @ (+) One(ErrorFrame("server_error"))]
    /\ ws' = [ws EXCEPT ![s] = "shut"]
    /\ Goto(s, "done", NoLoc)
    /\ endedBy' = [endedBy EXCEPT ![s] = "error"]
    /\ UNCHANGED <<active_connections, buckets, identity, connid, listener, connectedAt, owed>>
    /\ UNCHANGED <<cacheVars, storeVars, busVars, clock, nsend, overlapped, raced>>

\* ------------------------------------------------------------ listener
\* The listener writing to the socket it was spawned for, whatever the
\* registry holds.
ListenCaptured(s) ==
    /\ listener[s] = "listening"
    /\ inbox[s] # <<>>
    /\ \E o \in SendOutcomes(s) :
          /\ frames' = IF o = "sent" THEN [frames EXCEPT ![s] = @ (+) One(Head(inbox[s]))]
                       ELSE frames
          /\ IF o \in {"disc", "err"}
             THEN /\ listener' = [listener EXCEPT ![s] = "stopped"]
                  /\ inbox' = [inbox EXCEPT ![s] = <<>>]
             ELSE /\ listener' = listener
                  /\ inbox' = [inbox EXCEPT ![s] = Tail(@)]
    /\ UNCHANGED <<pc, env, loc, active_connections, buckets, endedBy>>
    /\ UNCHANGED <<identity, ws, connid, connectedAt, owed, pubs, missed>>
    /\ UNCHANGED <<cacheVars, storeVars, inputVars>>

\* listen_to_pubsub, lines 61-71: one bus message.  It is forwarded to the
\* socket the registry holds under the listener's (email, connection_id), if
\* any; a failed write ends the listener, which unsubscribes.
Listen(s) ==
    /\ listener[s] = "listening"
    /\ inbox[s] # <<>>
    /\ LET fr == Head(inbox[s])
           t == active_connections[owner(s)][connid[s]]
       IN \E o \in IF t = NoSock THEN {"skipped"} ELSE SendOutcomes(t) :
          /\ frames' = IF o = "sent" THEN [frames EXCEPT ![t] = @ (+) One(fr)] ELSE frames
          /\ IF o \in {"disc", "err"}
             THEN /\ listener' = [listener EXCEPT ![s] = "stopped"]
                  /\ inbox' = [inbox EXCEPT ![s] = <<>>]
             ELSE /\ listener' = listener
                  /\ inbox' = [inbox EXCEPT ![s] = Tail(@)]
    /\ UNCHANGED <<pc, env, loc, active_connections, buckets, endedBy>>
    /\ UNCHANGED <<identity, ws, connid, connectedAt, owed, pubs, missed>>
    /\ UNCHANGED <<cacheVars, storeVars, inputVars>>

\* A listener that unregisters its connection when the bus fails.
ListenFailUnregisters(s) ==
    /\ listener[s] = "listening"
    /\ listener' = [listener EXCEPT ![s] = "stopped"]
    /\ inbox' = [inbox EXCEPT ![s] = <<>>]
    /\ active_connections' = ManagerDisconnect(s)
    /\ buckets' = BucketsAfterDisconnect(s)
    /\ UNCHANGED <<pc, env, loc, frames, endedBy>>
    /\ UNCHANGED <<identity, ws, connid, connectedAt, owed, pubs, missed>>
    /\ UNCHANGED <<cacheVars, storeVars, inputVars>>

\* listen_to_pubsub, lines 63, 68-71: pubsub.listen() raises (the bus is
\* gone); the exception is logged, the pubsub unsubscribes and the task
\* returns.  What the pubsub had not yielded is lost.
ListenFail(s) ==
    /\ listener[s] = "listening"
    /\ listener' = [listener EXCEPT ![s] = "stopped"]
    /\ inbox' = [inbox EXCEPT ![s] = <<>>]
    /\ UNCHANGED <<pc, env, loc, frames, active_connections, buckets, endedBy>>
    /\ UNCHANGED <<identity, ws, connid, connectedAt, owed, pubs, missed>>
    /\ UNCHANGED <<cacheVars, storeVars, inputVars>>

\* datetime.utcnow() advances.
Tick ==
    /\ clock < MaxClock
    /\ clock' = clock + 1
    /\ UNCHANGED <<nenv, nsend, overlapped, raced>>
    /\ UNCHANGED <<pc, env, loc, frames, active_connections, buckets, endedBy>>
    /\ UNCHANGED <<cacheVars, storeVars, busVars, sockVars>>


\* ------------------------------------------------------------ the store
HasMsg(id) == \E d \in messages : d.id = id
Msg(id) == CHOOSE d \in messages : d.id = id
HasRoom(id) == \E r \in rooms : r.id = id

\* ObjectIds are unique: a message is named by the ordinal of its send, a
\* room by the ordinal of its insert (rooms are never deleted).
NextRoomId == Cardinality(rooms) + 1

\* The lookup with $in in place of $all: a room holding either identity.
RoomsOfAny(sender, receiver) ==
    {r \in rooms : sender \in {r.p1, r.p2} \/ receiver \in {r.p1, r.p2}}

\* The lookup comparing the participants array as written: sender first.
RoomsOfOrdered(sender, receiver) ==
    {r \in rooms : r.p1 = sender /\ r.p2 = receiver}

\* rooms_collection.find_one({"participants": {"$all": [sender, receiver]}})
RoomsOf(sender, receiver) ==
    {r \in rooms : sender \in {r.p1, r.p2} /\ receiver \in {r.p1, r.p2}}

\* The message document built as delivered.
MessageDocDelivered(id, room, sender, receiver, ts) ==
    [id |-> id, room_id |-> room, sender |-> sender, receiver |-> receiver,
     message |-> "hi", timestamp |-> ts, is_read |-> FALSE, delivered |-> TRUE,
     read_at |-> NoTime, edited |-> FALSE, edited_at |-> NoTime]

\* Lines 248-256.
MessageDoc(id, room, sender, receiver, ts) ==
    [id |-> id, room_id |-> room, sender |-> sender, receiver |-> receiver,
     message |-> "hi", timestamp |-> ts, is_read |-> FALSE, delivered |-> FALSE,
     read_at |-> NoTime, edited |-> FALSE, edited_at |-> NoTime]

\* Lines 237-241.
RoomDoc(id, sender, receiver, ts) ==
    [id |-> id, p1 |-> sender, p2 |-> receiver, created_at |-> ts,
     last_message_at |-> ts]

\* ------------------------------------------------------- the envelopes
Envelope(source, ok, room, sender, receiver, mid, email) ==
    [NoEnv EXCEPT !.source = source, !.ok = ok, !.room_id = room, !.sender = sender,
                  !.receiver = receiver, !.message_id = mid, !.email = email]

\* message.send from the socket of identity me: without the required
\* fields, in another identity's name, or well-formed with any room id.
SendEnvs(me) ==
    {Envelope("message.send", FALSE, NoId, "", "", NoId, "")}
    \cup {Envelope("message.send", TRUE, NoId, u, u, NoId, "") : u \in Users \ {me}}
    \cup {Envelope("message.send", TRUE, r, me, u, NoId, "") :
            r \in {NoId, BadId} \cup RoomIds, u \in Users}

IdEnvs(source) ==
    {Envelope(source, m # NoId, NoId, "", "", m, "") : m \in {NoId, BadId} \cup MsgIds}

StatusEnvs ==
    {Envelope("user.status", u # "", NoId, "", "", NoId, u) : u \in Users \cup {""}}

\* user.list: the paging and search fields it reads, from small sets.
Pages == {1, 2}
PerPages == {1, 2}
Searches == {"", "a"}

ListEnvelope(source, room, page, size, search, paged) ==
    [NoEnv EXCEPT !.source = source, !.ok = TRUE, !.room_id = room, !.page = page,
                  !.size = size, !.search = search, !.paged = paged]

UserListEnvs ==
    {ListEnvelope("user.list", NoId, p, n, q, g) :
       p \in Pages, n \in PerPages, q \in Searches, g \in BOOLEAN}

\* message.list of a room, pages counted from 0.  Without a room id the
\* envelope is handed to receive_user_list (line 571), which finds none of
\* its fields at the top level and takes its defaults (lines 442-445).
DefaultPerPage == 10
MessageListEnvs ==
    {ListEnvelope("message.list", r, p, n, "", FALSE) :
       r \in RoomIds, p \in {0, 1}, n \in PerPages}
    \cup {ListEnvelope("message.list", NoId, 1, DefaultPerPage, "", TRUE)}

\* read.list: with or without the sender it names.
ReadListEnvs ==
    {Envelope("read.list", u # "", NoId, u, "", NoId, "") : u \in Users \cup {""}}

\* message.type: data with or without its required fields.
TypeEnvs ==
    {Envelope("message.type", u # "", NoId, "", u, NoId, "") : u \in Users \cup {""}}

PingEnv == Envelope("ping", TRUE, NoId, "", "", NoId, "")

\* The sources of the dispatch table.
Sources == {"message.send", "message.read", "message.edit", "message.delete",
            "message.type", "user.status", "user.list", "message.list",
            "read.list", "ping"}

\* Source strings outside the table: none at all, a word that names nothing,
\* a table entry written with an underscore, and the words that name the
\* unread-summary function of the handshake.
OtherSources == {"", "bogus", "message_send", "unread.message"}

\* source.replace('.', '_'), line 187, on the strings above.
Replaced(source) ==
    CASE source = "message.send"   -> "message_send"
      [] source = "message.read"   -> "message_read"
      [] source = "message.edit"   -> "message_edit"
      [] source = "message.delete" -> "message_delete"
      [] source = "message.type"   -> "message_type"
      [] source = "user.status"    -> "user_status"
      [] source = "user.list"      -> "user_list"
      [] source = "message.list"   -> "message_list"
      [] source = "read.list"      -> "read_list"
      [] source = "unread.message" -> "unread_message"
      [] OTHER                     -> source

\* The module's functions whose name begins with receive_: what
\* globals().get(handler_name) can find.
ReceiveGlobals ==
    {"receive_message_send", "receive_message_read", "receive_message_edit",
     "receive_message_delete", "receive_message_type", "receive_user_status",
     "receive_user_list", "receive_message_list", "receive_read_list",
     "receive_ping", "receive_unread_message"}

\* handle_message, lines 183-190: the handler the source resolves to, or
\* the ValueError answered with invalid_request.
HandlerOf(source) ==
    IF source = "" THEN "invalid_request"
    ELSE IF "receive_" \o Replaced(source) \notin ReceiveGlobals THEN "invalid_request"
    ELSE "receive_" \o Replaced(source)

\* The sender field taken on trust.
SenderUnchecked(s, e) == TRUE

\* line 224: message_data["sender"] != email
SenderIsCaller(s, e) == e.sender = owner(s)

\* handle_message, lines 183-199, and the handler's code up to its first
\* awaited call: the position the handler of envelope e starts at, or the
\* frame it answers at once.  receive_unread_message takes two arguments:
\* called with three it raises TypeError, answered with server_error.
FirstStep(s, e) ==
    LET h == HandlerOf(e.source) IN
    CASE h = "invalid_request" -> "invalid_request"
      [] h = "receive_message_send" ->
           IF ~e.ok THEN "validation_error"
           ELSE IF ~SenderIsCaller(s, e) THEN "permission_denied"
           ELSE IF e.room_id = NoId THEN "send_find_room"
           ELSE "send_insert_msg"
      [] h \in {"receive_message_read", "receive_message_edit", "receive_message_delete"} ->
           IF ~e.ok THEN "validation_error"
           ELSE IF e.message_id = BadId THEN "server_error"
           ELSE IF h = "receive_message_read" THEN "read_update"
           ELSE IF h = "receive_message_edit" THEN "edit_update"
           ELSE "delete_find"
      [] h = "receive_user_status" ->
           IF ~e.ok THEN "validation_error" ELSE "status_get"
      [] h = "receive_message_type" ->
           IF ~e.ok THEN "validation_error" ELSE "type_publish"
      [] h = "receive_ping" -> "pong"
      [] h = "receive_user_list" -> "ulist_get"
      [] h = "receive_message_list" ->
           IF e.room_id = NoId THEN "ulist_get" ELSE "mlist_get"
      [] h = "receive_read_list" ->
           IF ~e.ok THEN "validation_error" ELSE "rlist_update"
      [] h = "receive_unread_message" -> "server_error"

\* The positions of receive_message_send, and whether two message.send
\* envelopes are between the same two identities.
SendPcs == {"send_find_room", "send_insert_room", "send_insert_msg",
            "send_publish", "send_delivered", "send_room_update"}
SamePair(e1, e2) == {e1.sender, e1.receiver} = {e2.sender, e2.receiver}

ErrorTypes == {"validation_error", "permission_denied", "not_found",
               "server_error", "invalid_request", "file_error"}

\* An envelope dispatched as soon as it arrives, whether or not the handler
\* of the one before it has returned.
RecvAnytime(s, e) ==
    /\ pc[s] \in {"loop"} \cup SendPcs
    /\ ws[s] = "open"
    /\ nenv < MaxEnv
    /\ nenv' = nenv + 1
    /\ LET first == FirstStep(s, e) IN
       /\ first \in SendPcs => nsend < MaxMsgs
       /\ nsend' = IF first \in SendPcs THEN nsend + 1 ELSE nsend
       /\ IF first \in ErrorTypes
          THEN /\ OwnSend(s, One(ErrorFrame(first)), "loop", NoLoc, TRUE)
          ELSE IF first = "pong"
          THEN /\ OwnSend(s, One(Frame("pong", NoId, "", "")), "loop", NoLoc, TRUE)
          ELSE /\ pc' = [pc EXCEPT ![s] = first]
               /\ env' = [env EXCEPT ![s] = e]
               /\ loc' = [loc EXCEPT ![s] =
                            [NoLoc EXCEPT !.room = e.room_id, !.ts = clock,
                                          !.mid = IF first \in SendPcs
                                                  THEN nsend + 1 ELSE e.message_id]]
               /\ UNCHANGED <<frames, active_connections, buckets, endedBy>>
    /\ overlapped' = overlapped
    /\ UNCHANGED <<clock, raced>>
    /\ UNCHANGED <<cacheVars, storeVars, busVars, sockVars>>

\* lines 153-155: the next envelope of an open socket is read and dispatched.
Recv(s, e) ==
    /\ pc[s] = "loop"
    /\ ws[s] = "open"
    /\ nenv < MaxEnv
    /\ nenv' = nenv + 1
    /\ LET first == FirstStep(s, e) IN
       /\ first \in SendPcs => nsend < MaxMsgs
       /\ nsend' = IF first \in SendPcs THEN nsend + 1 ELSE nsend
       /\ IF first \in ErrorTypes
          THEN /\ OwnSend(s, One(ErrorFrame(first)), "loop", NoLoc, TRUE)
          ELSE IF first = "pong"
          THEN /\ OwnSend(s, One(Frame("pong", NoId, "", "")), "loop", NoLoc, TRUE)
          ELSE /\ pc' = [pc EXCEPT ![s] = first]
               /\ env' = [env EXCEPT ![s] = e]
               /\ loc' = [loc EXCEPT ![s] =
                            [NoLoc EXCEPT !.room = e.room_id, !.ts = clock,
                                          !.mid = IF first \in SendPcs
                                                  THEN nsend + 1 ELSE e.message_id]]
               /\ UNCHANGED <<frames, active_connections, buckets, endedBy>>
    /\ overlapped' = (overlapped \/ (FirstStep(s, e) \in SendPcs /\ \E t \in Socks \ {s} :
                                        pc[t] \in SendPcs /\ SamePair(env[t], e)))
    /\ UNCHANGED <<clock, raced>>
    /\ UNCHANGED <<cacheVars, storeVars, busVars, sockVars>>


\* -------------------------------------------------------- message.send
\* receive_message_send, lines 231-245: the room lookup.  A room found is
\* reused (any of them, should there be several); otherwise the room
\* document is built and its insert issued.
SendFindRoom(s) ==
    /\ pc[s] = "send_find_room"
    /\ LET found == RoomsOf(env[s].sender, env[s].receiver) IN
       IF found # {}
       THEN \E r \in found :
              Silent(s, "send_insert_msg", [loc[s] EXCEPT !.room = r.id, !.ts = clock])
       ELSE Silent(s, "send_insert_room", [loc[s] EXCEPT !.ts = clock])
    /\ raced' = (raced \/ \E t \in Socks \ {s} :
                             pc[t] = "send_insert_room" /\ SamePair(env[t], env[s]))
    /\ UNCHANGED <<clock, nenv, nsend, overlapped>>
    /\ UNCHANGED <<cacheVars, storeVars, busVars, sockVars>>

\* lines 242-256: the room insert; the message document is built next.
SendInsertRoom(s) ==
    /\ pc[s] = "send_insert_room"
    /\ rooms' = rooms \cup {RoomDoc(NextRoomId, env[s].sender, env[s].receiver, loc[s].ts)}
    /\ Silent(s, "send_insert_msg", [loc[s] EXCEPT !.room = NextRoomId, !.ts = clock])
    /\ UNCHANGED <<messages, cacheVars, busVars, sockVars, inputVars>>

\* lines 272-295: the message insert, then the echo to the caller.
SendInsertMsg(s) ==
    /\ pc[s] = "send_insert_msg"
    /\ messages' = messages \cup
         {MessageDoc(loc[s].mid, loc[s].room, env[s].sender, env[s].receiver, loc[s].ts)}
    /\ OwnSend(s, One(Frame("message.send", loc[s].mid, env[s].sender, "live")),
               "send_publish", loc[s], TRUE)
    /\ UNCHANGED <<rooms, cacheVars, busVars, sockVars, inputVars>>

\* A socket a publish on the topic can still reach: one a listening pubsub of
\* the identity forwards to.
LiveReceivers(topic) ==
    {t \in Socks : /\ ws[t] = "open"
                   /\ \E s \in Subscribers(topic) :
                        active_connections[topic][connid[s]] = t}

\* line 296: manager.send_to_group(receiver, payload).  The publish reaches
\* the bus, or the bus is unreachable and the call raises: handle_message
\* answers server_error and the handler is over.
SendPublish(s) ==
    /\ pc[s] = "send_publish"
    /\ LET fr == Frame("message.send", loc[s].mid, env[s].sender, "live") IN
       \/ /\ inbox' = Publish(env[s].receiver, fr)
          /\ pubs' = Published(env[s].receiver, fr)
          /\ missed' = IF LiveReceivers(env[s].receiver) = {}
                       THEN missed \cup {loc[s].mid} ELSE missed
          /\ Silent(s, "send_delivered", loc[s])
       \/ /\ UNCHANGED <<inbox, pubs>>
          /\ missed' = missed \cup {loc[s].mid}
          /\ OwnSend(s, One(ErrorFrame("server_error")), "loop", NoLoc, TRUE)
    /\ UNCHANGED <<cacheVars, storeVars, sockVars, inputVars>>

\* lines 298-304: delivered is set whatever the publish reached; then
\* ObjectId(room_id) is evaluated, which raises for a string that is no id:
\* handle_message answers server_error.
SendDelivered(s) ==
    /\ pc[s] = "send_delivered"
    /\ messages' = {IF d.id = loc[s].mid THEN [d EXCEPT !.delivered = TRUE] ELSE d
                      : d \in messages}
    /\ IF loc[s].room = BadId
       THEN OwnSend(s, One(ErrorFrame("server_error")), "loop", NoLoc, TRUE)
       ELSE Silent(s, "send_room_update", loc[s])
    /\ UNCHANGED <<rooms, cacheVars, busVars, sockVars, inputVars>>

\* lines 303-306
SendRoomUpdate(s) ==
    /\ pc[s] = "send_room_update"
    /\ rooms' = {IF r.id = loc[s].room THEN [r EXCEPT !.last_message_at = clock] ELSE r
                   : r \in rooms}
    /\ Silent(s, "loop", NoLoc)
    /\ UNCHANGED <<messages, cacheVars, busVars, sockVars, inputVars>>

\* -------------------------------------------------------- message.read
\* The read filter without its receiver clause.
ReadMatchById(id, email) == {d \in messages : d.id = id}

\* receive_message_read, lines 314-322: update_one on {_id, receiver} sets
\* is_read and read_at; modified_count counts a document the $set changed.
ReadMatch(id, email) == {d \in messages : d.id = id /\ d.receiver = email}

ReadSet(d, ts) == [d EXCEPT !.is_read = TRUE, !.read_at = ts]

ReadUpdate(s) ==
    /\ pc[s] = "read_update"
    /\ LET hit == ReadMatch(loc[s].mid, owner(s))
           modified == {d \in hit : ReadSet(d, loc[s].ts) # d}
       IN /\ messages' = {IF d \in hit THEN ReadSet(d, loc[s].ts) ELSE d : d \in messages}
          /\ IF modified = {}
             THEN OwnSend(s, One(ErrorFrame("not_found")), "loop", NoLoc, TRUE)
             ELSE Silent(s, "read_publish", loc[s])
    /\ UNCHANGED <<rooms, cacheVars, busVars, sockVars, inputVars>>

\* The ack published to the topic of the message's sender as well.
ReadPublishToSender(s) ==
    /\ pc[s] = "read_publish"
    /\ LET fr == Frame("message.read", loc[s].mid, owner(s), "read")
           to == IF HasMsg(loc[s].mid) THEN Msg(loc[s].mid).sender ELSE owner(s)
       IN /\ inbox' = [t \in Socks |->
                         IF t \in Subscribers(owner(s)) \cup Subscribers(to)
                         THEN Append(inbox[t], fr) ELSE inbox[t]]
          /\ pubs' = pubs (+) SetToBag({PubRecord(owner(s), fr), PubRecord(to, fr)})
    /\ Silent(s, "loop", NoLoc)
    /\ UNCHANGED <<missed, cacheVars, storeVars, sockVars, inputVars>>

\* lines 324-331: the ack goes to the reader's own topic.
ReadPublish(s) ==
    /\ pc[s] = "read_publish"
    /\ LET fr == Frame("message.read", loc[s].mid, owner(s), "read") IN
       /\ inbox' = Publish(owner(s), fr)
       /\ pubs' = Published(owner(s), fr)
    /\ Silent(s, "loop", NoLoc)
    /\ UNCHANGED <<missed, cacheVars, storeVars, sockVars, inputVars>>


\* -------------------------------------------------------- message.edit
\* The edit filter without its sender clause.
EditMatchById(id, email) == {d \in messages : d.id = id}

\* receive_message_edit, lines 340-354: update_one on {_id, sender}.
EditMatch(id, email) == {d \in messages : d.id = id /\ d.sender = email}

EditSet(d, ts) == [d EXCEPT !.message = "edited", !.edited = TRUE, !.edited_at = ts]

EditUpdate(s) ==
    /\ pc[s] = "edit_update"
    /\ LET hit == EditMatch(loc[s].mid, owner(s))
           modified == {d \in hit : EditSet(d, loc[s].ts) # d}
       IN /\ messages' = {IF d \in hit THEN EditSet(d, loc[s].ts) ELSE d : d \in messages}
          /\ IF modified = {}
             THEN OwnSend(s, One(ErrorFrame("not_found")), "loop", NoLoc, TRUE)
             ELSE Silent(s, "edit_find", loc[s])
    /\ UNCHANGED <<rooms, cacheVars, busVars, sockVars, inputVars>>

\* lines 356-367: the edited message is read back; subscripting None (the
\* message was deleted meanwhile) raises, answered with server_error.
EditFind(s) ==
    /\ pc[s] = "edit_find"
    /\ IF HasMsg(loc[s].mid)
       THEN Silent(s, "edit_pub_sender", [loc[s] EXCEPT !.st = Msg(loc[s].mid).receiver])
       ELSE OwnSend(s, One(ErrorFrame("server_error")), "loop", NoLoc, TRUE)
    /\ UNCHANGED <<cacheVars, storeVars, busVars, sockVars, inputVars>>

\* line 369
EditPubSender(s) ==
    /\ pc[s] = "edit_pub_sender"
    /\ LET fr == Frame("message.edit", loc[s].mid, owner(s), "edited") IN
       /\ inbox' = Publish(owner(s), fr)
       /\ pubs' = Published(owner(s), fr)
    /\ Silent(s, "edit_pub_receiver", loc[s])
    /\ UNCHANGED <<missed, cacheVars, storeVars, sockVars, inputVars>>

\* line 370
EditPubReceiver(s) ==
    /\ pc[s] = "edit_pub_receiver"
    /\ LET fr == Frame("message.edit", loc[s].mid, owner(s), "edited") IN
       /\ inbox' = Publish(loc[s].st, fr)
       /\ pubs' = Published(loc[s].st, fr)
    /\ Silent(s, "loop", NoLoc)
    /\ UNCHANGED <<missed, cacheVars, storeVars, sockVars, inputVars>>

\* ------------------------------------------------------ message.delete
\* receive_message_delete, lines 378-386.
DeleteFind(s) ==
    /\ pc[s] = "delete_find"
    /\ IF ~HasMsg(loc[s].mid)
       THEN OwnSend(s, One(ErrorFrame("not_found")), "loop", NoLoc, TRUE)
       ELSE IF Msg(loc[s].mid).sender # owner(s)
       THEN OwnSend(s, One(ErrorFrame("permission_denied")), "loop", NoLoc, TRUE)
       ELSE Silent(s, "delete_one", [loc[s] EXCEPT !.st = Msg(loc[s].mid).receiver])
    /\ UNCHANGED <<cacheVars, storeVars, busVars, sockVars, inputVars>>

\* lines 388-401
DeleteOne(s) ==
    /\ pc[s] = "delete_one"
    /\ messages' = {d \in messages : d.id # loc[s].mid}
    /\ IF ~HasMsg(loc[s].mid)
       THEN OwnSend(s, One(ErrorFrame("server_error")), "loop", NoLoc, TRUE)
       ELSE Silent(s, "delete_pub_sender", loc[s])
    /\ UNCHANGED <<rooms, cacheVars, busVars, sockVars, inputVars>>

\* line 403
DeletePubSender(s) ==
    /\ pc[s] = "delete_pub_sender"
    /\ LET fr == Frame("message.delete", loc[s].mid, owner(s), "deleted") IN
       /\ inbox' = Publish(owner(s), fr)
       /\ pubs' = Published(owner(s), fr)
    /\ Silent(s, "delete_pub_receiver", loc[s])
    /\ UNCHANGED <<missed, cacheVars, storeVars, sockVars, inputVars>>

\* line 404
DeletePubReceiver(s) ==
    /\ pc[s] = "delete_pub_receiver"
    /\ LET fr == Frame("message.delete", loc[s].mid, owner(s), "deleted") IN
       /\ inbox' = Publish(loc[s].st, fr)
       /\ pubs' = Published(loc[s].st, fr)
    /\ Silent(s, "loop", NoLoc)
    /\ UNCHANGED <<missed, cacheVars, storeVars, sockVars, inputVars>>

\* receive_user_status, line 428: redis get(...) or "offline".
StatusOf(email) == IF user_status[email] = "" THEN "offline" ELSE user_status[email]

\* ------------------------------------------------------------ user.list
\* The rows of the users table (models/user_model.py), in the order the
\* database returns them.
UserTable == <<"a", "b">>

\* User.email.ilike("%q%") on the one-letter emails of the model.
Like(u, q) == q = "" \/ q = u

\* fetch_users, lines 457-473: the other users matching the search, and the
\* page of them.
Selected(email, q) == SelectSeq(UserTable, LAMBDA u : u # email /\ Like(u, q))

PageOf(seq, page, per_page) ==
    LET off == (page - 1) * per_page
        last == IF off + per_page < Len(seq) THEN off + per_page ELSE Len(seq)
    IN SubSeq(seq, off + 1, last)

\* fetch_unread_counts, lines 475-488.
UnreadCount(email, u) ==
    Cardinality({d \in messages : d.receiver = email /\ ~d.is_read /\ d.sender = u})

\* fetch_rooms and the room map, lines 490-526: the caller's rooms by their
\* other participant; of several rooms with one user the last one stays.
RoomWith(email, u) ==
    LET other(r) == IF r.p1 # email THEN r.p1 ELSE IF r.p2 # email THEN r.p2 ELSE ""
        mine == {r \in rooms : email \in {r.p1, r.p2} /\ other(r) = u}
    IN IF mine = {} THEN NoId
       ELSE (CHOOSE r \in mine : \A q \in mine : q.id <= r.id).id

\* lines 528-547
UserRow(email, u) ==
    [email |-> u, is_status |-> StatusOf(u), last_seen |-> user_last_seen[u],
     unread_count |-> UnreadCount(email, u), room_id |-> RoomWith(email, u)]

\* lines 549-556: the response of user.list to the fields of envelope e.
UserListBody(email, e) ==
    LET sel == Selected(email, e.search)
        shown == IF e.paged THEN PageOf(sel, e.page, e.size) ELSE sel
    IN [NoBody EXCEPT
          !.users = {UserRow(email, shown[i]) : i \in DOMAIN shown},
          !.paged = e.paged,
          !.page = IF e.paged THEN e.page ELSE 0,
          !.size = IF e.paged THEN e.size ELSE 0,
          !.total = IF e.paged THEN Len(sel) ELSE 0,
          !.pages = IF e.paged THEN (Len(sel) + e.size - 1) \div e.size ELSE 0]

ListFrame(kind, body) == [Frame(kind, NoId, "", "") EXCEPT !.body = body]

\* line 448: f"user_list:{email}:{page}:{per_page}:{search_query}"
UserListKey(email, e) ==
    [prefix |-> "user_list", email |-> email, room |-> NoId, page |-> e.page,
     size |-> e.size, search |-> e.search]

\* redis get and setex on the list keys.
CacheGet(key) == {c.value : c \in {x \in list_cache : x.key = key}}
CacheSet(key, value) ==
    {c \in list_cache : c.key # key} \cup {[key |-> key, value |-> value]}

\* lines 448-453: the cache is asked first; a hit is the response.
UlistGet(s) ==
    /\ pc[s] = "ulist_get"
    /\ LET hit == CacheGet(UserListKey(owner(s), env[s])) IN
       IF hit # {}
       THEN \E f \in hit : OwnSend(s, One(f), "loop", NoLoc, TRUE)
       ELSE Silent(s, "ulist_fetch", loc[s])
    /\ UNCHANGED <<cacheVars, storeVars, busVars, sockVars, inputVars>>

\* lines 505-556: the users, then the unread counts, the rooms and the
\* presence keys, all of them reads; the response is built from them.
UlistFetch(s) ==
    /\ pc[s] = "ulist_fetch"
    /\ Silent(s, "ulist_store", [loc[s] EXCEPT !.body = UserListBody(owner(s), env[s])])
    /\ UNCHANGED <<cacheVars, storeVars, busVars, sockVars, inputVars>>

\* lines 559-560: the response is cached for 60 seconds, then sent.
UlistStore(s) ==
    /\ pc[s] = "ulist_store"
    /\ list_cache' = CacheSet(UserListKey(owner(s), env[s]),
                              ListFrame("user.list", loc[s].body))
    /\ OwnSend(s, One(ListFrame("user.list", loc[s].body)), "loop", NoLoc, TRUE)
    /\ UNCHANGED <<user_status, user_last_seen, storeVars, busVars, sockVars, inputVars>>

\* The time to live of a cached list response is over.
Expire ==
    /\ \E c \in list_cache : list_cache' = list_cache \ {c}
    /\ UNCHANGED <<pc, env, loc, frames, active_connections, buckets, endedBy>>
    /\ UNCHANGED <<user_status, user_last_seen, storeVars, busVars, sockVars, inputVars>>

\* --------------------------------------------------------- message.list
MaxPageSize == 100

\* line 575
PageSize(e) == IF e.size < MaxPageSize THEN e.size ELSE MaxPageSize

\* line 579: f"message_list:{email}:{room_id}:{page}:{page_size}"
MessageListKey(email, e) ==
    [prefix |-> "message_list", email |-> email, room |-> e.room_id, page |-> e.page,
     size |-> PageSize(e), search |-> ""]

\* lines 587-590: the messages of the room the caller sent or received.
RoomMessages(email, room) ==
    {d \in messages : d.room_id = room /\ (d.sender = email \/ d.receiver = email)}

\* sort("timestamp", -1): newest first, messages of one timestamp in the
\* order of their insertion.
RECURSIVE NewestFirst(_)
NewestFirst(S) ==
    IF S = {} THEN <<>>
    ELSE LET d == CHOOSE x \in S : \A y \in S \ {x} :
                    \/ x.timestamp > y.timestamp
                    \/ (x.timestamp = y.timestamp /\ x.id < y.id)
         IN <<d>> \o NewestFirst(S \ {d})

\* line 615: messages.reverse()
Reverse(seq) == [i \in DOMAIN seq |-> seq[Len(seq) + 1 - i]]

\* lines 592-626: count, then skip and limit on the sorted messages, and
\* the page turned round.
MessageListBody(email, e) ==
    LET all == NewestFirst(RoomMessages(email, e.room_id))
        skip == e.page * PageSize(e)
        last == IF skip + PageSize(e) < Len(all) THEN skip + PageSize(e) ELSE Len(all)
        shown == SubSeq(all, skip + 1, last)
    IN [NoBody EXCEPT
          !.msgs = {shown[i] : i \in DOMAIN shown},
          !.order = Reverse(shown),
          !.page = e.page,
          !.size = PageSize(e),
          !.total = Len(all),
          !.more = (skip + PageSize(e) < Len(all))]

\* lines 579-584
MlistGet(s) ==
    /\ pc[s] = "mlist_get"
    /\ LET hit == CacheGet(MessageListKey(owner(s), env[s])) IN
       IF hit # {}
       THEN \E f \in hit : OwnSend(s, One(f), "loop", NoLoc, TRUE)
       ELSE Silent(s, "mlist_fetch", loc[s])
    /\ UNCHANGED <<cacheVars, storeVars, busVars, sockVars, inputVars>>

\* lines 586-626
MlistFetch(s) ==
    /\ pc[s] = "mlist_fetch"
    /\ Silent(s, "mlist_store", [loc[s] EXCEPT !.body = MessageListBody(owner(s), env[s])])
    /\ UNCHANGED <<cacheVars, storeVars, busVars, sockVars, inputVars>>

\* lines 629-630: cached for 30 seconds, then sent.
MlistStore(s) ==
    /\ pc[s] = "mlist_store"
    /\ list_cache' = CacheSet(MessageListKey(owner(s), env[s]),
                              ListFrame("message.list", loc[s].body))
    /\ OwnSend(s, One(ListFrame("message.list", loc[s].body)), "loop", NoLoc, TRUE)
    /\ UNCHANGED <<user_status, user_last_seen, storeVars, busVars, sockVars, inputVars>>

\* ------------------------------------------------------------ read.list
\* The read.list filter without its is_read clause.
ReadListMatchRead(sender, email) ==
    {d \in messages : d.sender = sender /\ d.receiver = email}

\* receive_read_list, lines 642-651: update_many on the unread messages of
\* the sender addressed to the caller.
ReadListMatch(sender, email) ==
    {d \in messages : d.sender = sender /\ d.receiver = email /\ ~d.is_read}

RlistUpdate(s) ==
    /\ pc[s] = "rlist_update"
    /\ LET hit == ReadListMatch(env[s].sender, owner(s)) IN
       /\ messages' = {IF d \in hit THEN ReadSet(d, loc[s].ts) ELSE d : d \in messages}
       /\ IF hit = {}
          THEN OwnSend(s, One(ErrorFrame("not_found")), "loop", NoLoc, TRUE)
          ELSE Silent(s, "rlist_publish", [loc[s] EXCEPT !.n = Cardinality(hit)])
    /\ UNCHANGED <<rooms, cacheVars, busVars, sockVars, inputVars>>

\* lines 653-661
RlistPublish(s) ==
    /\ pc[s] = "rlist_publish"
    /\ LET fr == Frame("read.list", loc[s].n, env[s].sender, "read") IN
       /\ inbox' = Publish(owner(s), fr)
       /\ pubs' = Published(owner(s), fr)
    /\ Silent(s, "loop", NoLoc)
    /\ UNCHANGED <<missed, cacheVars, storeVars, sockVars, inputVars>>

\* -------------------------------------------------------- message.type
\* The typing event published to the caller's own topic as well.
TypePublishBoth(s) ==
    /\ pc[s] = "type_publish"
    /\ LET fr == Frame("message.type", env[s].room_id, owner(s), "typing") IN
       /\ inbox' = [t \in Socks |->
                      IF t \in Subscribers(env[s].receiver) \cup Subscribers(owner(s))
                      THEN Append(inbox[t], fr) ELSE inbox[t]]
       /\ pubs' = pubs (+) One(PubRecord(env[s].receiver, fr))
                       (+) One(PubRecord(owner(s), fr))
    /\ Silent(s, "loop", NoLoc)
    /\ UNCHANGED <<missed, cacheVars, storeVars, sockVars, inputVars>>

\* receive_message_type, lines 412-419: one event on the receiver's topic.
TypePublish(s) ==
    /\ pc[s] = "type_publish"
    /\ LET fr == Frame("message.type", env[s].room_id, owner(s), "typing") IN
       /\ inbox' = Publish(env[s].receiver, fr)
       /\ pubs' = Published(env[s].receiver, fr)
    /\ Silent(s, "loop", NoLoc)
    /\ UNCHANGED <<missed, cacheVars, storeVars, sockVars, inputVars>>

\* --------------------------------------------------------- user.status
StatusGet(s) ==
    /\ pc[s] = "status_get"
    /\ Silent(s, "status_last_seen", [loc[s] EXCEPT !.st = StatusOf(env[s].email)])
    /\ UNCHANGED <<cacheVars, storeVars, busVars, sockVars, inputVars>>

\* lines 429-438
StatusLastSeen(s) ==
    /\ pc[s] = "status_last_seen"
    /\ OwnSend(s, One(Frame("user.status", user_last_seen[env[s].email],
                            env[s].email, loc[s].st)),
               "loop", NoLoc, TRUE)
    /\ UNCHANGED <<cacheVars, storeVars, busVars, sockVars, inputVars>>

\* ------------------------------------------------------- specification
Init ==
    /\ identity = [s \in Socks |-> ""]
    /\ clock = 0
    /\ pc = [s \in Socks |-> "init"]
    /\ ws = [s \in Socks |-> "new"]
    /\ connid = [s \in Socks |-> NoId]
    /\ env = [s \in Socks |-> NoEnv]
    /\ loc = [s \in Socks |-> NoLoc]
    /\ active_connections = [u \in Users |-> [c \in Socks |-> NoSock]]
    /\ buckets = {}
    /\ listener = [s \in Socks |-> "none"]
    /\ inbox = [s \in Socks |-> <<>>]
    /\ user_status = [u \in Users |-> ""]
    /\ user_last_seen = [u \in Users |-> NoTime]
    /\ list_cache = {}
    /\ rooms = {}
    /\ messages = {}
    /\ frames = [s \in Socks |-> EmptyBag]
    /\ pubs = EmptyBag
    /\ nenv = 0
    /\ nsend = 0
    /\ endedBy = [s \in Socks |-> "none"]
    /\ connectedAt = [s \in Socks |-> NoTime]
    /\ missed = {}
    /\ owed = [s \in Socks |-> {}]
    /\ overlapped = FALSE
    /\ raced = FALSE

\* Both handshakes done, one after the other, before any envelope: every
\* socket accepted under its own id, registered, listening, in the receive
\* loop, with the connection envelope and the empty unread summary pushed.
InitConnected ==
    \E ids \in [Socks -> Users] :
      /\ ids[1] = "a"
      /\ identity = ids
      /\ clock = 0
      /\ pc = [s \in Socks |-> "loop"]
      /\ ws = [s \in Socks |-> "open"]
      /\ connid = [s \in Socks |-> s]
      /\ env = [s \in Socks |-> NoEnv]
      /\ loc = [s \in Socks |-> NoLoc]
      /\ active_connections =
           [u \in Users |-> [c \in Socks |-> IF ids[c] = u THEN c ELSE NoSock]]
      /\ buckets = {ids[s] : s \in Socks}
      /\ listener = [s \in Socks |-> "listening"]
      /\ inbox = [s \in Socks |-> <<>>]
      /\ user_status = [u \in Users |-> IF \E s \in Socks : ids[s] = u THEN "online" ELSE ""]
      /\ user_last_seen = [u \in Users |-> IF \E s \in Socks : ids[s] = u THEN 0 ELSE NoTime]
      /\ list_cache = {}
      /\ rooms = {}
      /\ messages = {}
      /\ frames = [s \in Socks |->
                     One(Frame("connection", NoId, ids[s], "connected"))
                     (+) One(Frame("message.unread", NoId, ids[s], "summary"))]
      /\ pubs = EmptyBag
      /\ nenv = 0
      /\ nsend = 0
      /\ endedBy = [s \in Socks |-> "none"]
      /\ connectedAt = [s \in Socks |-> 0]
      /\ missed = {}
      /\ owed = [s \in Socks |-> {}]
      /\ overlapped = FALSE
      /\ raced = FALSE

Handshake(s) ==
    \/ \E cred \in Creds, email \in Claimable(s) : Connect(s, cred, email)
    \/ Accept(s)
    \/ Subscribe(s)
    \/ SetOnline(s)
    \/ SetLastSeen(s)
    \/ PendingFind(s)
    \/ PendingUpdate(s)
    \/ Unread(s)

Teardown(s) ==
    \/ Close(s)
    \/ NoticeDisconnect(s)
    \/ DiscStatus(s)
    \/ DiscLastSeen(s)
    \/ DiscPublish(s)
    \/ Garbage(s)

SendSteps(s) ==
    \/ SendFindRoom(s)
    \/ SendInsertRoom(s)
    \/ SendInsertMsg(s)
    \/ SendPublish(s)
    \/ SendDelivered(s)
    \/ SendRoomUpdate(s)

ReadSteps(s) == ReadUpdate(s) \/ ReadPublish(s)

EditSteps(s) ==
    \/ EditUpdate(s)
    \/ EditFind(s)
    \/ EditPubSender(s)
    \/ EditPubReceiver(s)

DeleteSteps(s) ==
    \/ DeleteFind(s)
    \/ DeleteOne(s)
    \/ DeletePubSender(s)
    \/ DeletePubReceiver(s)

StatusSteps(s) == StatusGet(s) \/ StatusLastSeen(s)

UserListSteps(s) == UlistGet(s) \/ UlistFetch(s) \/ UlistStore(s)

MessageListSteps(s) == MlistGet(s) \/ MlistFetch(s) \/ MlistStore(s)

ReadListSteps(s) == RlistUpdate(s) \/ RlistPublish(s)

\* An envelope whose source is outside the dispatch table, with the data of
\* a well-formed message.send.
OtherEnvs(me) ==
    {Envelope(src, TRUE, NoId, me, u, NoId, "") : src \in OtherSources, u \in Users}

\* The envelopes of the handlers modelled so far.
Envelopes(me) ==
    SendEnvs(me) \cup IdEnvs("message.read") \cup IdEnvs("message.edit")
    \cup IdEnvs("message.delete") \cup StatusEnvs \cup TypeEnvs \cup {PingEnv}
    \cup UserListEnvs \cup MessageListEnvs \cup ReadListEnvs \cup OtherEnvs(me)

\* The whole gateway.
Next ==
    \/ Tick
    \/ Expire
    \/ \E s \in Socks :
         \/ Handshake(s)
         \/ Teardown(s)
         \/ Listen(s)
         \/ ListenFail(s)
         \/ \E e \in Envelopes(owner(s)) : Recv(s, e)
         \/ SendSteps(s)
         \/ ReadSteps(s)
         \/ EditSteps(s)
         \/ DeleteSteps(s)
         \/ StatusSteps(s)
         \/ TypePublish(s)
         \/ UserListSteps(s)
         \/ MessageListSteps(s)
         \/ ReadListSteps(s)

Spec == Init /\ [][Next]_vars

\* A well-formed message.send of identity me with no room id.
PlainSends(me) == {Envelope("message.send", TRUE, NoId, me, u, NoId, "") : u \in Users}

\* Room resolution: connected clients that send, with and without a room id.
NextRooms ==
    \E s \in Socks :
      \/ \E e \in SendEnvs(owner(s)) : Recv(s, e)
      \/ SendSteps(s)
      \/ Listen(s)

SpecRooms == InitConnected /\ [][NextRooms]_vars

\* The connection life cycle from the first upgrade request on, with at most
\* ConnSends messages sent.
ConnSends == 1

NextConn ==
    \E s \in Socks :
      \/ Handshake(s)
      \/ Teardown(s)
      \/ Listen(s)
      \/ \E e \in PlainSends(owner(s)) : nsend < ConnSends /\ Recv(s, e)
      \/ SendSteps(s)

SpecConn == Init /\ [][NextConn]_vars

\* Dispatch: connected clients sending envelopes of sources inside and
\* outside the table.
DispatchEnvs(me) ==
    OtherEnvs(me) \cup PlainSends(me) \cup StatusEnvs \cup TypeEnvs \cup {PingEnv}

NextDispatch ==
    \E s \in Socks :
      \/ \E e \in DispatchEnvs(owner(s)) : Recv(s, e)
      \/ SendSteps(s)
      \/ StatusSteps(s)
      \/ TypePublish(s)
      \/ Listen(s)

SpecDispatch == InitConnected /\ [][NextDispatch]_vars

\* The state after the first client, connected as in InitConnected, has sent
\* one message to the identity of the second and every listener has
\* forwarded it.
InitSent ==
    \E ids \in [Socks -> Users] :
      LET fr == Frame("message.send", 1, "a", "live")
          hello(s) == One(Frame("connection", NoId, ids[s], "connected"))
                      (+) One(Frame("message.unread", NoId, ids[s], "summary"))
      IN
      /\ ids[1] = "a"
      /\ identity = ids
      /\ clock = 0
      /\ pc = [s \in Socks |-> "loop"]
      /\ ws = [s \in Socks |-> "open"]
      /\ connid = [s \in Socks |-> s]
      /\ env = [s \in Socks |-> NoEnv]
      /\ loc = [s \in Socks |-> NoLoc]
      /\ active_connections =
           [u \in Users |-> [c \in Socks |-> IF ids[c] = u THEN c ELSE NoSock]]
      /\ buckets = {ids[s] : s \in Socks}
      /\ listener = [s \in Socks |-> "listening"]
      /\ inbox = [s \in Socks |-> <<>>]
      /\ user_status = [u \in Users |-> IF \E s \in Socks : ids[s] = u THEN "online" ELSE ""]
      /\ user_last_seen = [u \in Users |-> IF \E s \in Socks : ids[s] = u THEN 0 ELSE NoTime]
      /\ list_cache = {}
      /\ rooms = {RoomDoc(1, "a", ids[NSocks], 0)}
      /\ messages = {[MessageDoc(1, 1, "a", ids[NSocks], 0) EXCEPT !.delivered = TRUE]}
      /\ frames = [s \in Socks |->
                     hello(s) (+) (IF s = 1 THEN One(fr) ELSE EmptyBag)
                     (+) (IF ids[s] = ids[NSocks] THEN One(fr) ELSE EmptyBag)]
      /\ pubs = One(PubRecord(ids[NSocks], fr))
      /\ nenv = 0
      /\ nsend = 1
      /\ endedBy = [s \in Socks |-> "none"]
      /\ connectedAt = [s \in Socks |-> 0]
      /\ missed = {}
      /\ owed = [s \in Socks |-> {}]
      /\ overlapped = FALSE
      /\ raced = FALSE

\* The lists: connected clients, one message stored, asking for lists and
\* marking messages read while cached responses expire.
ListEnvs ==
    {e \in UserListEnvs : e.size = 1}
    \cup {e \in MessageListEnvs : e.room_id \in {NoId, 1} /\ e.size \in {1, DefaultPerPage}}
    \cup {e \in ReadListEnvs : e.ok}
    \cup {Envelope("message.read", TRUE, NoId, "", "", 1, "")}

NextList ==
    \/ Expire
    \/ \E s \in Socks :
         \/ \E e \in ListEnvs : Recv(s, e)
         \/ UserListSteps(s)
         \/ MessageListSteps(s)
         \/ ReadSteps(s)
         \/ ReadListSteps(s)
         \/ Listen(s)

SpecList == InitSent /\ [][NextList]_vars

\* Paging: connected clients, one message stored, that list the pages of
\* its room and send another message while cached pages expire.
PageEnvs ==
    {ListEnvelope("message.list", 1, p, n, "", FALSE) : p \in {0, 1}, n \in PerPages}

NextPages ==
    \/ Expire
    \/ \E s \in Socks :
         \/ \E e \in PageEnvs \cup PlainSends(owner(s)) : Recv(s, e)
         \/ SendSteps(s)
         \/ MessageListSteps(s)
         \/ Listen(s)

SpecPages == InitSent /\ [][NextPages]_vars

\* Marking by sender: connected clients, one message stored, that send
\* another one and mark the messages of a sender read.
NextMarks ==
    \E s \in Socks :
      \/ \E e \in PlainSends(owner(s)) \cup {e \in ReadListEnvs : e.ok} : Recv(s, e)
      \/ SendSteps(s)
      \/ ReadListSteps(s)
      \/ Listen(s)

SpecMarks == InitSent /\ [][NextMarks]_vars

\* lines 219-220: the fields receive_message_send requires in its data.
RequiredSendFields == {"room_id", "sender", "receiver", "message"}

\* A message.send of identity me to u whose data carries the fields `keys`;
\* a room_id that is carried is empty.
SendWithKeys(me, u, keys) ==
    Envelope("message.send", RequiredSendFields \subseteq keys, NoId,
             IF "sender" \in keys THEN me ELSE "",
             IF "receiver" \in keys THEN u ELSE "", NoId, "")

\* The fields of a send: connected clients sending with an empty room id
\* and with no room id at all.
NextFields ==
    \E s \in Socks :
      \/ \E u \in Users :
           \E keys \in {RequiredSendFields, RequiredSendFields \ {"room_id"}} :
             Recv(s, SendWithKeys(owner(s), u, keys))
      \/ SendSteps(s)
      \/ Listen(s)

SpecFields == InitConnected /\ [][NextFields]_vars

\* The first client connected as in InitConnected, the others not yet.
InitFirstConnected ==
    /\ identity = [s \in Socks |-> IF s = 1 THEN "a" ELSE ""]
    /\ clock = 0
    /\ pc = [s \in Socks |-> IF s = 1 THEN "loop" ELSE "init"]
    /\ ws = [s \in Socks |-> IF s = 1 THEN "open" ELSE "new"]
    /\ connid = [s \in Socks |-> IF s = 1 THEN 1 ELSE NoId]
    /\ env = [s \in Socks |-> NoEnv]
    /\ loc = [s \in Socks |-> NoLoc]
    /\ active_connections =
         [u \in Users |-> [c \in Socks |-> IF u = "a" /\ c = 1 THEN 1 ELSE NoSock]]
    /\ buckets = {"a"}
    /\ listener = [s \in Socks |-> IF s = 1 THEN "listening" ELSE "none"]
    /\ inbox = [s \in Socks |-> <<>>]
    /\ user_status = [u \in Users |-> IF u = "a" THEN "online" ELSE ""]
    /\ user_last_seen = [u \in Users |-> IF u = "a" THEN 0 ELSE NoTime]
    /\ list_cache = {}
    /\ rooms = {}
    /\ messages = {}
    /\ frames = [s \in Socks |->
                   IF s = 1
                   THEN One(Frame("connection", NoId, "a", "connected"))
                        (+) One(Frame("message.unread", NoId, "a", "summary"))
                   ELSE EmptyBag]
    /\ pubs = EmptyBag
    /\ nenv = 0
    /\ nsend = 0
    /\ endedBy = [s \in Socks |-> "none"]
    /\ connectedAt = [s \in Socks |-> IF s = 1 THEN 0 ELSE NoTime]
    /\ missed = {}
    /\ owed = [s \in Socks |-> {}]
    /\ overlapped = FALSE
    /\ raced = FALSE

\* The pending replay: the first client sends messages under a running
\* clock while the others connect.
NextReplay ==
    \/ Tick
    \/ \E s \in Socks :
         \/ \E email \in Claimable(s) : Connect(s, "valid", email)
         \/ Accept(s)
         \/ Subscribe(s)
         \/ SetOnline(s)
         \/ SetLastSeen(s)
         \/ PendingFind(s)
         \/ PendingUpdate(s)
         \/ Unread(s)
         \/ \E e \in PlainSends(owner(s)) : Recv(s, e)
         \/ SendSteps(s)
         \/ Listen(s)

SpecReplay == InitFirstConnected /\ [][NextReplay]_vars

\* Deleting: connected clients, one message stored, that list its room and
\* delete it while cached pages expire.
DeleteEnvs ==
    {Envelope("message.delete", TRUE, NoId, "", "", 1, ""),
     ListEnvelope("message.list", 1, 0, 1, "", FALSE)}

NextDelete ==
    \/ Expire
    \/ \E s \in Socks :
         \/ \E e \in DeleteEnvs : Recv(s, e)
         \/ DeleteSteps(s)
         \/ MessageListSteps(s)
         \/ Listen(s)

SpecDelete == InitSent /\ [][NextDelete]_vars

\* The read flag: clients that connect, one message sent, read, edited,
\* listed and marked read by sender, with the pending replay of a receiver
\* that connects late.
FlagEnvs(me) ==
    PlainSends(me)
    \cup {Envelope(src, TRUE, NoId, "", "", 1, "") : src \in {"message.read", "message.edit"}}
    \cup {e \in ReadListEnvs : e.ok}
    \cup {ListEnvelope("message.list", 1, 0, 1, "", FALSE)}

NextFlags ==
    \E s \in Socks :
      \/ \E email \in Claimable(s) : Connect(s, "valid", email)
      \/ Accept(s)
      \/ Subscribe(s)
      \/ SetOnline(s)
      \/ SetLastSeen(s)
      \/ PendingFind(s)
      \/ PendingUpdate(s)
      \/ Unread(s)
      \/ \E e \in FlagEnvs(owner(s)) : nsend < ConnSends /\ Recv(s, e)
      \/ \E e \in FlagEnvs(owner(s)) \ PlainSends(owner(s)) : Recv(s, e)
      \/ SendSteps(s)
      \/ ReadSteps(s)
      \/ EditSteps(s)
      \/ ReadListSteps(s)
      \/ MessageListSteps(s)
      \/ Listen(s)

SpecFlags == Init /\ [][NextFlags]_vars

\* The bus failing under a listener: connected clients that send at most
\* ConnSends messages and ping while listeners fail.
NextBus ==
    \E s \in Socks :
      \/ \E e \in PlainSends(owner(s)) : nsend < ConnSends /\ Recv(s, e)
      \/ Recv(s, PingEnv)
      \/ SendSteps(s)
      \/ Listen(s)
      \/ ListenFail(s)

SpecBus == InitConnected /\ [][NextBus]_vars

\* The message operations of connected clients under a running clock, on at
\* most MsgSends messages.
MsgSends == 1

MsgEnvs(me) ==
    PlainSends(me)
    \cup {Envelope(src, TRUE, NoId, "", "", m, "") :
            src \in {"message.read", "message.edit", "message.delete"},
            m \in 1..MsgSends}

NextMsg ==
    \/ Tick
    \/ \E s \in Socks :
         \/ \E e \in MsgEnvs(owner(s)) : nsend < MsgSends /\ Recv(s, e)
         \/ \E e \in MsgEnvs(owner(s)) \ PlainSends(owner(s)) : Recv(s, e)
         \/ SendSteps(s)
         \/ ReadSteps(s)
         \/ EditSteps(s)
         \/ DeleteSteps(s)
         \/ Listen(s)

SpecMsg == InitConnected /\ [][NextMsg]_vars


\* ---------------------------------------------------------------- rooms
\* The rooms whose participants are exactly the identities A and B.
PairRooms(A, B) == {r \in rooms : {r.p1, r.p2} = {A, B}}

\* A send of s that has resolved its room and not yet returned.
RoomResolved(s) == pc[s] \in SendPcs \ {"send_find_room", "send_insert_room"}

\* C1: as long as no message.send between two identities began while another
\* one between them was in progress, two distinct identities have at most one
\* room, and a send between them that came without a room id has resolved to
\* that one room, whose participants are the two: the first send created it,
\* every later one reuses its id.
C1_OneRoomPerPairSequential ==
    ~overlapped =>
      /\ \A A, B \in Users : A # B => Cardinality(PairRooms(A, B)) <= 1
      /\ \A s \in Socks :
           (RoomResolved(s) /\ env[s].room_id = NoId /\ env[s].sender # env[s].receiver)
             => /\ PairRooms(env[s].sender, env[s].receiver) = {r \in rooms : r.id = loc[s].room}
                /\ Cardinality(PairRooms(env[s].sender, env[s].receiver)) = 1
                /\ HasMsg(loc[s].mid) => Msg(loc[s].mid).room_id = loc[s].room

\* A second send, in the other direction, has resolved to the room the first
\* send created.
C1_Witness ==
    /\ ~overlapped
    /\ \E s \in Socks :
         /\ pc[s] = "send_publish"
         /\ env[s].room_id = NoId
         /\ env[s].sender # env[s].receiver
         /\ \E d \in messages : /\ d.id # loc[s].mid
                                /\ d.room_id = loc[s].room
                                /\ d.sender = env[s].receiver
                                /\ d.receiver = env[s].sender

\* C2, as claimed: in every reachable state there is at most one room per
\* unordered pair of two participants.
C2_OneRoomPerPairAlways ==
    \A A, B \in Users : A # B => Cardinality(PairRooms(A, B)) <= 1

\* C2, amended: at most one room per unordered pair of participants, as long
\* as no room lookup ran while another send of the same pair was between its
\* own lookup and its room insert.
C2_OneRoomPerPairUnlessRaced ==
    ~raced => \A A, B \in Users : Cardinality(PairRooms(A, B)) <= 1

\* Two sends of a pair have interleaved, though not at the lookup, and both
\* messages are in the pair's one room.
C2_Witness ==
    /\ overlapped
    /\ ~raced
    /\ \E A, B \in Users :
         /\ A # B
         /\ Cardinality(PairRooms(A, B)) = 1
         /\ Cardinality(messages) = 2
         /\ \A d \in messages : /\ {d.sender, d.receiver} = {A, B}
                                /\ \E r \in PairRooms(A, B) : d.room_id = r.id


\* ------------------------------------------------------------- messages
\* The handler of s takes a step.
Steps(s) == pc'[s] # pc[s]

\* The step of s answers the caller with the error and changes nothing else:
\* no document, no publish, no bus message, and the handler is back in the
\* receive loop.
Refused(s, type) ==
    /\ messages' = messages
    /\ rooms' = rooms
    /\ pubs' = pubs
    /\ inbox' = inbox
    /\ ws[s] = "open" => /\ pc'[s] = "loop"
                         /\ frames'[s] = frames[s] (+) One(ErrorFrame(type))

\* C3, as claimed: a message.read by the receiver of a message that is
\* already read answers not_found, publishes no ack and leaves the message
\* (is_read, read_at) as it is.
C3_ReadOfReadMessageRefused ==
    [][\A s \in Socks :
         (/\ pc[s] = "read_update"
          /\ Steps(s)
          /\ \E d \in ReadMatch(loc[s].mid, owner(s)) : d.is_read)
           => Refused(s, "not_found")]_vars

\* C4: message.edit and message.delete on a stored message by a caller who
\* is not its sender answer not_found (edit) and permission_denied (delete)
\* and change nothing: the collections, the publishes and the bus queues stay
\* as they are; reading the envelope changes none of them either.
C4_NonSenderEditDeleteRefused ==
    [][\A s \in Socks :
         /\ (/\ pc[s] = "edit_update"
             /\ Steps(s)
             /\ \E d \in messages : d.id = loc[s].mid /\ d.sender # owner(s))
              => Refused(s, "not_found")
         /\ (/\ pc[s] = "delete_find"
             /\ Steps(s)
             /\ \E d \in messages : d.id = loc[s].mid /\ d.sender # owner(s))
              => Refused(s, "permission_denied")
         /\ (pc[s] = "loop" /\ pc'[s] \in {"edit_update", "delete_find"})
              => /\ messages' = messages
                 /\ rooms' = rooms
                 /\ pubs' = pubs
                 /\ inbox' = inbox]_vars

\* A caller who has been refused the delete of a message of another sender
\* is at the update of its edit of that message.
C4_Witness ==
    \E s \in Socks :
      /\ pc[s] = "edit_update"
      /\ BagIn(ErrorFrame("permission_denied"), frames[s])
      /\ \E d \in messages : d.id = loc[s].mid /\ d.sender # owner(s)


\* ---------------------------------------------------------- connections
\* The handshake of s is complete and its handler has not left the receive
\* loop.
InLoop(s) ==
    pc[s] \notin {"init", "accept", "subscribe", "set_online", "set_last_seen",
                  "pending_find", "pending_update", "unread",
                  "disc_status", "disc_last_seen", "disc_publish", "done"}

HasFrame(s, kind, id) ==
    \E f \in BagToSet(frames[s]) : f.kind = kind /\ f.id = id

\* C5, as claimed: a stored message whose publish reached no live socket of
\* its receiver has been sent to the receiver's socket once the receiver's
\* next handshake is complete.
C5_MissedMessageReplayed ==
    \A s \in Socks :
      InLoop(s) => \A m \in owed[s] : HasMsg(m) => HasFrame(s, "message.send", m)

\* C6, as claimed: while a connection of an identity is through its
\* handshake and open, the cached status of the identity is online.
C6_OnlineWhileConnected ==
    \A s \in Socks :
      (InLoop(s) /\ ws[s] = "open") => StatusOf(identity[s]) = "online"

\* No other socket has claimed the identity of s.
SingleConnection(s) == \A t \in Socks \ {s} : identity[t] # identity[s]

\* C7, as claimed: for an identity with a single connection, the presence
\* read of user.status gives online once the handshake is complete, and
\* offline with a last_seen not before the connect time once the client has
\* closed the socket and the handler has returned.
C7_PresenceFollowsConnection ==
    \A s \in Socks :
      SingleConnection(s) =>
        /\ (InLoop(s) /\ ws[s] = "open") => StatusOf(identity[s]) = "online"
        /\ (ws[s] = "closed" /\ pc[s] = "done")
             => /\ StatusOf(identity[s]) = "offline"
                /\ user_last_seen[identity[s]] >= connectedAt[s]

\* No handler is between two awaited calls and no bus message is waiting.
Quiescent ==
    \A s \in Socks : pc[s] \in {"init", "loop", "done"} /\ inbox[s] = <<>>

\* C8, as claimed: with nothing left in flight, there are as many running
\* listeners (live subscriptions) as registered connections.
C8_NoLeakedListener ==
    Quiescent =>
      Cardinality({s \in Socks : listener[s] = "listening"})
        = Cardinality({s \in Socks : Registered(s)})

\* s was registered and no longer is.
Unregistered(s) == connid[s] # NoId /\ ~Registered(s)

\* C9: once a connection is unregistered no frame is written to its socket
\* any more, and while the registry holds nothing under its id its listener,
\* still subscribed, keeps running: the messages it pops are skipped, not
\* sent, and nothing raises.
C9_NothingSentAfterUnregister ==
    [][\A s \in Socks :
         /\ Unregistered(s) => frames'[s] = frames[s]
         /\ (/\ connid[s] # NoId
             /\ active_connections[identity[s]][connid[s]] = NoSock
             /\ listener[s] = "listening")
              => listener'[s] = "listening"]_vars

\* A bus message waits at the listener of a connection that is unregistered
\* while its subscription is live.
C9_Witness ==
    \E s \in Socks :
      /\ Unregistered(s)
      /\ ws[s] = "closed"
      /\ listener[s] = "listening"
      /\ inbox[s] # <<>>

\* C10, as claimed: once the handler of an accepted connection has returned,
\* the registry no longer holds the connection.
C10_UnregisteredWhenHandlerEnds ==
    \A s \in Socks : (pc[s] = "done" /\ connid[s] # NoId) => ~Registered(s)

\* --------------------------------------------------------------- frames
\* C11, as claimed: no inbound frame read on an open connection, well-formed
\* or not, makes the server close the socket or the handler leave the
\* receive loop for good.
C11_BadFrameKeepsConnection ==
    [][\A s \in Socks :
         (pc[s] = "loop" /\ ws[s] = "open" /\ nenv' # nenv /\ Steps(s))
           => (ws'[s] = "open" /\ pc'[s] # "done")]_vars

\* C12, as claimed: an envelope whose source is missing or is no entry of
\* the dispatch table is answered with one invalid_request error frame, runs
\* no handler, changes no store, cache or bus state and leaves the
\* connection open.
C12_UnknownSourceRefused ==
    [][\A s \in Socks : \A e \in Envelopes(owner(s)) :
         (e.source \notin Sources /\ Recv(s, e)) =>
           /\ Refused(s, "invalid_request")
           /\ user_status' = user_status
           /\ user_last_seen' = user_last_seen
           /\ ws'[s] = "open"]_vars

\* ---------------------------------------------------------------- lists
\* The frames the step writes to socket s.
Written(s) == BagToSet(frames'[s] (-) frames[s])

\* Frame f is a user.list response to the fields of envelope e from the
\* identity email: its paging block and the users of its rows are those the
\* fields select.
AnswersUserList(f, email, e) ==
    LET b == UserListBody(email, e) IN
    /\ f.body.paged = b.paged
    /\ f.body.page = b.page
    /\ f.body.size = b.size
    /\ f.body.total = b.total
    /\ f.body.pages = b.pages
    /\ {r.email : r \in f.body.users} = {r.email : r \in b.users}

\* Frame f is a message.list response to the fields of envelope e.
AnswersMessageList(f, email, e) ==
    /\ f.body.page = e.page
    /\ f.body.size = PageSize(e)
    /\ \A d \in f.body.msgs :
         d.room_id = e.room_id /\ (d.sender = email \/ d.receiver = email)

\* C13, as claimed: every user.list or message.list response a handler
\* writes, computed or taken from the cache, is a response to the fields of
\* the request it answers.
C13_ListResponseOfOwnRequest ==
    [][\A s \in Socks : \A f \in Written(s) :
         /\ (pc[s] \in {"ulist_get", "ulist_store"} /\ f.kind = "user.list")
              => AnswersUserList(f, owner(s), env[s])
         /\ (pc[s] \in {"mlist_get", "mlist_store"} /\ f.kind = "message.list")
              => AnswersMessageList(f, owner(s), env[s])]_vars

\* C14, as claimed: a user.list response taken from the cache counts no
\* message as unread that the store holds as read.
C14_NoStaleUnreadCount ==
    [][\A s \in Socks : \A f \in Written(s) :
         (pc[s] = "ulist_get" /\ f.kind = "user.list")
           => \A r \in f.body.users : r.unread_count <= UnreadCount(owner(s), r.email)]_vars

\* ----------------------------------------------------------------- send
\* C15: a message.send whose sender field is not the identity of the calling
\* connection is answered with permission_denied and changes nothing: no
\* room, no message, no echo, no publish; and a message a connection inserts
\* has that connection's identity as its sender.
C15_SenderMustBeCaller ==
    [][\A s \in Socks :
         /\ \A e \in SendEnvs(owner(s)) :
              (e.ok /\ e.sender # owner(s) /\ Recv(s, e))
                => Refused(s, "permission_denied")
         /\ (pc[s] = "send_insert_msg" /\ Steps(s))
              => \A d \in messages' \ messages : d.sender = owner(s)]_vars

\* A connection has been refused a send in another identity's name, and the
\* one message stored was sent, and echoed, on a connection of its sender.
C15_Witness ==
    \E s \in Socks :
      /\ pc[s] = "loop"
      /\ BagIn(ErrorFrame("permission_denied"), frames[s])
      /\ Cardinality(messages) = 1
      /\ \A d \in messages :
           \E t \in Socks : d.sender = owner(t) /\ HasFrame(t, "message.send", d.id)

\* The positions a send may go on to from position p; a send also leaves
\* for the receive loop or ends with the handler.
SendSuccessors(p) ==
    CASE p = "send_find_room"   -> {"send_insert_room", "send_insert_msg"}
      [] p = "send_insert_room" -> {"send_insert_msg"}
      [] p = "send_insert_msg"  -> {"send_publish"}
      [] p = "send_publish"     -> {"send_delivered"}
      [] p = "send_delivered"   -> {"send_room_update"}
      [] OTHER                  -> {}

LiveFrame(s) == Frame("message.send", loc[s].mid, env[s].sender, "live")

\* C16, as claimed: while a send is at its publish, the message it stored
\* is not marked delivered.
C16_DeliveredOnlyAfterPublish ==
    \A s \in Socks :
      (pc[s] = "send_publish" /\ HasMsg(loc[s].mid)) => ~Msg(loc[s].mid).delivered

\* C16, amended: a send takes its steps in the order room, insert with
\* delivered = false and echo, publish, delivered = true, last_message_at;
\* a failed publish leaves the flag as it is; and the flag of a message is
\* set only by that message's send after its publish, or by a pending
\* replay of the receiver's handshake.
C16_SendOrder ==
    [][/\ \A s \in Socks :
            /\ (pc[s] \in SendPcs /\ Steps(s))
                 => pc'[s] \in SendSuccessors(pc[s]) \cup {"loop", "done", "disc_status"}
            /\ (pc[s] = "send_insert_msg" /\ Steps(s))
                 => /\ \E d \in messages' :
                         /\ d.id = loc[s].mid /\ ~d.delivered
                         /\ messages' = messages \cup {d}
                    /\ pubs' = pubs
                    /\ ws[s] = "open" => frames'[s] = frames[s] (+) One(LiveFrame(s))
            /\ (pc[s] = "send_publish" /\ pc'[s] = "send_delivered")
                 => /\ pubs' = pubs (+) One(PubRecord(env[s].receiver, LiveFrame(s)))
                    /\ messages' = messages
            /\ (pc[s] = "send_publish" /\ Steps(s) /\ pc'[s] # "send_delivered")
                 => /\ pubs' = pubs
                    /\ inbox' = inbox
                    /\ messages' = messages
            /\ (pc[s] = "send_delivered" /\ Steps(s))
                 => /\ \A d \in messages' : d.id = loc[s].mid => d.delivered
                    /\ pubs' = pubs
            /\ (pc[s] = "send_room_update" /\ Steps(s))
                 => /\ \A r \in rooms' : r.id = loc[s].room => r.last_message_at = clock
                    /\ messages' = messages
                    /\ pubs' = pubs
       /\ \A d \in messages : \A n \in messages' :
            (n.id = d.id /\ ~d.delivered /\ n.delivered)
              => \E s \in Socks :
                   /\ Steps(s)
                   /\ \/ pc[s] = "send_delivered" /\ loc[s].mid = d.id
                      \/ pc[s] = "pending_update" /\ d.receiver = owner(s)]_vars

\* A send is past every step but the last: its message is stored, published
\* to the receiver's topic and marked delivered.
C16_Witness ==
    \E s \in Socks :
      /\ pc[s] = "send_room_update"
      /\ HasMsg(loc[s].mid)
      /\ Msg(loc[s].mid).delivered
      /\ BagIn(PubRecord(env[s].receiver, LiveFrame(s)), pubs)
      /\ HasFrame(s, "message.send", loc[s].mid)

\* The frame fr waits in the bus queue of the listener of t.
Queued(t, fr) == \E i \in 1..Len(inbox[t]) : inbox[t][i] = fr

\* C17: once a message.send from A to B has been stored and published, a
\* socket of A holds the message.send frame of the stored message's id, and
\* every connected socket of B holds the frame of the same id or has it
\* waiting at its listener; and every message.send frame on a socket carries
\* the id of a stored message between that socket's identity and its peer.
C17_BothReceiveSameId ==
    /\ \A d \in messages :
         LET fr == Frame("message.send", d.id, d.sender, "live") IN
         BagIn(PubRecord(d.receiver, fr), pubs)
           => /\ \E s \in Socks : owner(s) = d.sender /\ BagIn(fr, frames[s])
              /\ \A t \in Socks :
                   owner(t) = d.receiver => (BagIn(fr, frames[t]) \/ Queued(t, fr))
    /\ \A t \in Socks : \A f \in BagToSet(frames[t]) :
         f.kind = "message.send"
           => \E d \in messages :
                /\ d.id = f.id
                /\ d.sender = f.who
                /\ owner(t) \in {d.sender, d.receiver}

\* A message from A to a different identity B is stored, nothing is in
\* flight, and a socket of A and a socket of B hold its frame.
C17_Witness ==
    \E d \in messages : \E s, t \in Socks :
      LET fr == Frame("message.send", d.id, d.sender, "live") IN
      /\ d.sender # d.receiver
      /\ owner(s) = d.sender
      /\ owner(t) = d.receiver
      /\ BagIn(fr, frames[s])
      /\ BagIn(fr, frames[t])
      /\ \A u \in Socks : pc[u] = "loop" /\ inbox[u] = <<>>

ReadAck(s) == Frame("message.read", loc[s].mid, owner(s), "read")

\* C18: a message.read notifies the reader side only.  Its update step
\* publishes and sends nothing; its publish step puts exactly one ack on the
\* bus, on the reader's own topic, reaches no listener of another identity
\* and writes no frame; and a message.read frame only ever arrives on a
\* socket of the reader it names.
C18_ReadAckToReaderOnly ==
    [][/\ \A s \in Socks :
            /\ (pc[s] = "read_update" /\ Steps(s))
                 => /\ pubs' = pubs
                    /\ inbox' = inbox
                    /\ \A t \in Socks \ {s} : frames'[t] = frames[t]
            /\ (pc[s] = "read_publish" /\ Steps(s))
                 => /\ pubs' = pubs (+) One(PubRecord(owner(s), ReadAck(s)))
                    /\ \A t \in Socks : owner(t) # owner(s) => inbox'[t] = inbox[t]
                    /\ frames' = frames
       /\ \A t \in Socks : \A f \in BagToSet(frames'[t]) :
            f.kind = "message.read" => f.who = owner(t)]_vars

\* B has read a message that another identity A sent: the ack is on B's
\* topic and on a socket of B, and nothing is in flight.
C18_Witness ==
    \E d \in messages : \E s, t \in Socks :
      LET ack == Frame("message.read", d.id, d.receiver, "read") IN
      /\ d.sender # d.receiver
      /\ d.is_read
      /\ owner(s) = d.sender
      /\ owner(t) = d.receiver
      /\ BagIn(PubRecord(d.receiver, ack), pubs)
      /\ BagIn(ack, frames[t])
      /\ \A u \in Socks : pc[u] = "loop" /\ inbox[u] = <<>>

\* Socket s has no server-side state: never accepted, no frame, not in the
\* registry, no listener and nothing queued for one.
Untouched(s) ==
    /\ ws[s] = "new"
    /\ connid[s] = NoId
    /\ frames[s] = EmptyBag
    /\ listener[s] = "none"
    /\ inbox[s] = <<>>
    /\ \A u \in Users : \A c \in Socks : active_connections[u][c] # s

\* C19: an upgrade request whose credential is missing, invalid, without an
\* identity or inactive ends the handler at once, rejected, and changes
\* nothing: no socket accepted, no frame, registry, listeners, bus and
\* presence keys as they were; and a rejected socket stays without any
\* server-side state.
C19_RejectedBeforeAccept ==
    [][/\ \A s \in Socks : \A cred \in Creds \ {"valid"} : \A email \in Users :
            Connect(s, cred, email)
              => /\ pc'[s] = "done"
                 /\ endedBy'[s] = "rejected"
                 /\ UNCHANGED <<ws, connid, frames, active_connections, buckets, listener,
                                inbox, pubs, user_status, user_last_seen>>
       /\ \A s \in Socks : endedBy'[s] = "rejected" => Untouched(s)']_vars

\* One upgrade was rejected while another client is connected and online.
C19_Witness ==
    \E s, t \in Socks :
      /\ endedBy[s] = "rejected"
      /\ pc[s] = "done"
      /\ Untouched(s)
      /\ pc[t] = "loop"
      /\ user_status[owner(t)] = "online"

\* The positions the handshake may go on to from position p; a failed write
\* ends the handler instead.
HandshakeSuccessors(p) ==
    CASE p = "accept"         -> {"subscribe"}
      [] p = "subscribe"      -> {"set_online"}
      [] p = "set_online"     -> {"set_last_seen"}
      [] p = "set_last_seen"  -> {"pending_find"}
      [] p = "pending_find"   -> {"pending_update", "unread"}
      [] p = "pending_update" -> {"unread"}
      [] p = "unread"         -> {"loop"}
      [] OTHER                -> {}

HandshakePcs ==
    {"accept", "subscribe", "set_online", "set_last_seen", "pending_find",
     "pending_update", "unread"}

ConnectionFrame(s) == Frame("connection", NoId, owner(s), "connected")
SummaryFrame(s) == Frame("message.unread", NoId, owner(s), "summary")

\* C20: the handshake takes its steps in the order accept and register,
\* presence online, fresh last_seen and connection envelope, pending
\* messages, unread summary, and only then reads an envelope: each step does
\* its own write and none of a later step, the summary is never on a socket
\* without the connection envelope, and a socket whose envelope is being
\* handled has got the summary.
C20_HandshakeOrder ==
    [][\A s \in Socks :
         /\ (pc[s] \in HandshakePcs /\ Steps(s))
              => pc'[s] \in HandshakeSuccessors(pc[s]) \cup {"done"}
         /\ (pc[s] = "accept" /\ Steps(s))
              => /\ ws[s] = "new" /\ ws'[s] = "open"
                 /\ connid'[s] # NoId
                 /\ active_connections'[owner(s)][connid'[s]] = s
                 /\ frames[s] = EmptyBag
                 /\ UNCHANGED <<frames, user_status, user_last_seen>>
         /\ (pc[s] = "set_online" /\ Steps(s))
              => /\ user_status'[owner(s)] = "online"
                 /\ active_connections[owner(s)][connid[s]] = s
                 /\ UNCHANGED <<frames, user_last_seen>>
         /\ (pc[s] = "set_last_seen" /\ Steps(s))
              => /\ user_last_seen'[owner(s)] = clock
                 /\ ~BagIn(ConnectionFrame(s), frames[s])
                 /\ pc'[s] = "pending_find" /\ ws[s] = "open"
                      => frames'[s] = frames[s] (+) One(ConnectionFrame(s))
         /\ (pc[s] = "pending_find" /\ Steps(s) /\ ws[s] = "open")
              => /\ BagIn(ConnectionFrame(s), frames[s])
                 /\ ~BagIn(SummaryFrame(s), frames[s])
                 /\ \A d \in PendingOf(owner(s)) : HasFrame(s, "message.send", d.id)'
         /\ (pc[s] = "unread" /\ Steps(s) /\ ws[s] = "open")
              => /\ pc'[s] = "loop"
                 /\ frames'[s] = frames[s] (+) One(SummaryFrame(s))
         /\ env'[s] # env[s] /\ env'[s] # NoEnv => pc[s] = "loop"
         /\ BagIn(SummaryFrame(s), frames'[s]) => BagIn(ConnectionFrame(s), frames'[s])
         /\ env'[s] # NoEnv => BagIn(SummaryFrame(s), frames'[s])]_vars

\* A client that connected while a message was waiting for it has reached
\* the receive loop: it is registered and online and has got the connection
\* envelope, the replayed message and the summary.
C20_Witness ==
    \E s \in Socks :
      /\ pc[s] = "loop"
      /\ ws[s] = "open"
      /\ Registered(s)
      /\ user_status[owner(s)] = "online"
      /\ BagIn(ConnectionFrame(s), frames[s])
      /\ BagIn(SummaryFrame(s), frames[s])
      /\ \E f \in BagToSet(frames[s]) : f.kind = "message.send" /\ f.tag = "replay"

\* ------------------------------------------------------------ ordering
\* Socket s takes a frame from its client in this step.
Took(s) == nenv' = nenv + 1 /\ (pc'[s] # pc[s] \/ frames'[s] # frames[s])

\* C21: a connection handles one envelope at a time.  A socket takes a frame
\* only in the receive loop, with no envelope in hand and no handler local
\* left; the envelope in hand stays the same until its handler is over; and
\* a socket is inside a handler exactly when it has an envelope in hand.
C21_OneEnvelopeAtATime ==
    [][\A s \in Socks :
         /\ Took(s) => pc[s] = "loop" /\ env[s] = NoEnv /\ loc[s] = NoLoc
         /\ (env[s] # NoEnv /\ env'[s] # env[s])
              => env'[s] = NoEnv /\ loc'[s] = NoLoc /\ pc'[s] \in Idle
         /\ (env'[s] # NoEnv) <=> (pc'[s] \notin Idle)]_vars

\* The only socket of identity a has sent a message, its handler is over,
\* and it is now inside the handler of a later envelope about that message.
C21_Witness ==
    /\ \A t \in Socks \ {1} : owner(t) # owner(1)
    /\ pc[1] = "edit_update"
    /\ \E d \in messages : d.sender = owner(1) /\ d.id = loc[1].mid
    /\ HasFrame(1, "message.send", loc[1].mid)

\* ------------------------------------------------------------- fan-out
\* C22, as claimed: a message published on the topic of identity X is queued
\* for every socket registered under X at that moment and for no socket of
\* another identity, and a listener forwards each queued message unchanged,
\* once, to its own socket.
C22_ForwardedOnceToEachRegistered ==
    [][/\ \A s \in Socks :
            (pc[s] = "send_publish" /\ pc'[s] = "send_delivered")
              => \A t \in Socks :
                   IF Registered(t) /\ owner(t) = env[s].receiver
                   THEN inbox'[t] = Append(inbox[t], LiveFrame(s))
                   ELSE owner(t) # env[s].receiver => inbox'[t] = inbox[t]
       /\ \A t \in Socks :
            (inbox[t] # <<>> /\ inbox'[t] = Tail(inbox[t]) /\ ws[t] = "open")
              => frames' = [frames EXCEPT ![t] = @ (+) One(Head(inbox[t]))]]_vars

\* ------------------------------------------------------------ registry
\* The handler of s has called manager.disconnect.
DisconnectCalled(s) ==
    \/ pc[s] \in {"disc_status", "disc_last_seen", "disc_publish"}
    \/ pc[s] = "done" /\ endedBy[s] = "disconnect"

\* The sockets the registry holds for identity u.
SocketSet(u) == {active_connections[u][c] : c \in Socks} \ {NoSock}

\* C23: whatever the interleaving of connects and disconnects, the registry
\* holds for an identity exactly the connections registered under it and not
\* yet unregistered, each under its own connection id, and an identity is a
\* key of the registry exactly when it has such a connection.
C23_RegistryExact ==
    \A u \in Users :
      /\ SocketSet(u) = {s \in Socks : /\ owner(s) = u
                                       /\ connid[s] # NoId
                                       /\ ~DisconnectCalled(s)}
      /\ \A c \in Socks :
           active_connections[u][c] # NoSock => connid[active_connections[u][c]] = c
      /\ u \in buckets <=> SocketSet(u) # {}

\* Two connections of one identity were registered, one has disconnected
\* and the other is still in the registry.
C23_Witness ==
    \E s, t \in Socks :
      /\ s # t
      /\ owner(s) = owner(t)
      /\ DisconnectCalled(s)
      /\ connectedAt[t] # NoTime
      /\ pc[t] = "loop"
      /\ SocketSet(owner(t)) = {t}

\* ------------------------------------------------------------ read flag
\* The step of s that may set the read flag of message d: the update of a
\* message.read of d, or of a read.list naming d's sender, by d's receiver.
MarksRead(s, d) ==
    /\ Steps(s)
    /\ owner(s) = d.receiver
    /\ \/ pc[s] = "read_update" /\ loc[s].mid = d.id
       \/ pc[s] = "rlist_update" /\ env[s].sender = d.sender

\* C24: a message is stored unread; its read flag is set only by the update
\* of a message.read for it or of a read.list naming its sender, issued by
\* its receiver; and once set the flag is never cleared.
C24_ReadFlagOnlyByReceiver ==
    [][\A n \in messages' :
         IF \E d \in messages : d.id = n.id
         THEN \A d \in messages :
                d.id = n.id
                  => /\ d.is_read => n.is_read
                     /\ (~d.is_read /\ n.is_read) => \E s \in Socks : MarksRead(s, d)
         ELSE ~n.is_read]_vars

\* A message replayed to its receiver at the handshake, then edited by its
\* sender, has been marked read by the receiver.
C24_Witness ==
    \E d \in messages : \E t \in Socks :
      /\ d.is_read
      /\ d.edited
      /\ d.sender # d.receiver
      /\ owner(t) = d.receiver
      /\ \E f \in BagToSet(frames[t]) :
           f.kind = "message.send" /\ f.id = d.id /\ f.tag = "replay"

\* -------------------------------------------------------------- paging
\* What a message.list request of identity email gets in the current state:
\* the cached response of its key if there is one, the page of the store
\* otherwise (lines 579-626).
MessageListAnswer(email, e) ==
    LET hit == CacheGet(MessageListKey(email, e))
    IN IF hit # {} THEN (CHOOSE f \in hit : TRUE).body ELSE MessageListBody(email, e)

\* The index of the last page of total messages in pages of n.
LastPage(total, n) == IF total = 0 THEN 0 ELSE (total - 1) \div n

\* C25, as claimed: in every state, the answers to message.list for the
\* pages of a room, asked one after the other with the store as it is, all
\* report the total of page 0, the pages up to the last one hold every
\* matching message of the store exactly once and nothing else, and has_more
\* is false on the last page only.
C25_PagesCoverTotal ==
    \A email \in Users : \A room \in RoomIds : \A n \in 1..MaxMsgs :
      LET ans(p) == MessageListAnswer(email, ListEnvelope("message.list", room, p, n, "", FALSE))
          k == LastPage(ans(0).total, n)
          shown(p) == {d.id : d \in ans(p).msgs}
          matching == {d.id : d \in RoomMessages(email, room)}
      IN /\ \A p \in 0..MaxMsgs : ans(p).total = ans(0).total
         /\ ans(0).total = Cardinality(matching)
         /\ \A m \in matching : Cardinality({p \in 0..k : m \in shown(p)}) = 1
         /\ \A p \in 0..k : shown(p) \subseteq matching
         /\ \A p \in 0..k : ans(p).more <=> p # k

\* ------------------------------------------------------------ read.list
\* The stored messages a read.list of s is about: those its envelope's
\* sender sent to the caller and the caller has not read.
UnreadFrom(s) ==
    {d \in messages : d.sender = env[s].sender /\ d.receiver = owner(s) /\ ~d.is_read}

ReadListAck(s) == Frame("read.list", loc[s].n, env[s].sender, "read")

\* C26: the update of a read.list marks exactly the unread messages from the
\* named sender to the caller and changes no other message; with none it
\* answers not_found and changes and publishes nothing; otherwise the handler
\* publishes their number once, on the caller's topic, and nothing else.
C26_ReadListMarksExactly ==
    [][\A s \in Socks :
         /\ (pc[s] = "rlist_update" /\ Steps(s))
              => /\ messages' = (messages \ UnreadFrom(s))
                                 \cup {[d EXCEPT !.is_read = TRUE, !.read_at = loc[s].ts]
                                         : d \in UnreadFrom(s)}
                 /\ rooms' = rooms
                 /\ pubs' = pubs
                 /\ inbox' = inbox
                 /\ IF UnreadFrom(s) = {}
                    THEN Refused(s, "not_found")
                    ELSE /\ pc'[s] = "rlist_publish"
                         /\ loc'[s].n = Cardinality(UnreadFrom(s))
                         /\ frames' = frames
         /\ (pc[s] = "rlist_publish" /\ Steps(s))
              => /\ pubs' = pubs (+) One(PubRecord(owner(s), ReadListAck(s)))
                 /\ \A t \in Socks : owner(t) # owner(s) => inbox'[t] = inbox[t]
                 /\ messages' = messages
                 /\ frames' = frames]_vars

\* A second read.list of the same sender is at its update: the first one
\* marked the message and published a count of one, nothing is left to mark,
\* and a message of another sender is stored unread.
C26_Witness ==
    \E s \in Socks :
      /\ pc[s] = "rlist_update"
      /\ UnreadFrom(s) = {}
      /\ \E d \in messages : d.sender # env[s].sender /\ ~d.is_read
      /\ \E d \in messages :
           d.sender = env[s].sender /\ d.receiver = owner(s) /\ d.is_read
      /\ BagIn(PubRecord(owner(s), Frame("read.list", 1, env[s].sender, "read")), pubs)

\* ----------------------------------------------------------- disconnect
OfflineEvent(s) == PubRecord(GlobalTopic, Frame("user.status", NoId, owner(s), "offline"))

\* The disconnect path of s, step by step: the connection is out of the
\* registry when the status is written offline, then last_seen is written,
\* then one offline event is published on the global topic and the handler
\* is over.
DisconnectPath(s) ==
    /\ (pc[s] = "disc_status" /\ Steps(s))
         => /\ \A u \in Users : \A c \in Socks : active_connections[u][c] # s
            /\ user_status'[owner(s)] = "offline"
            /\ pc'[s] = "disc_last_seen"
            /\ pubs' = pubs
    /\ (pc[s] = "disc_last_seen" /\ Steps(s))
         => /\ user_last_seen'[owner(s)] = clock
            /\ user_status' = user_status
            /\ pc'[s] = "disc_publish"
            /\ pubs' = pubs
    /\ (pc[s] = "disc_publish" /\ Steps(s))
         => /\ pubs' = pubs (+) One(OfflineEvent(s))
            /\ inbox' = inbox
            /\ pc'[s] = "done"
            /\ endedBy'[s] = "disconnect"

\* C27, as claimed: the handler of a connection whose client has
\* disconnected ends through the disconnect path, which unregisters the
\* connection, writes the presence keys and then publishes one offline event
\* on the global topic.
C27_DisconnectThenBroadcast ==
    [][\A s \in Socks :
         /\ DisconnectPath(s)
         /\ (ws'[s] = "closed" /\ pc'[s] = "done") => endedBy'[s] = "disconnect"]_vars

\* ------------------------------------------------------- optional room
\* C28, as claimed: a message.send whose data carries sender (the caller),
\* receiver and message but no room_id is taken on to the room lookup, and
\* is not answered with validation_error.
C28_RoomIdOptional ==
    [][\A s \in Socks : \A u \in Users :
         Recv(s, SendWithKeys(owner(s), u, {"sender", "receiver", "message"}))
           => /\ pc'[s] = "send_find_room"
              /\ frames'[s] = frames[s]]_vars

\* --------------------------------------------------------------- replay
\* The stored messages addressed to the identity of s and not delivered.
Undelivered(s) == {d \in messages : d.receiver = owner(s) /\ ~d.delivered}

ReplayFrame(d) == Frame("message.send", d.id, d.sender, "replay")

ListedIds(s) == {loc[s].pend[i] : i \in DOMAIN loc[s].pend}

\* C29: the replay's read pushes exactly the undelivered messages addressed
\* to the connecting identity, in ascending order of their timestamps, and
\* changes no message; its update then sets delivered on exactly the
\* messages that were pushed and changes nothing else.
C29_ReplayExactlyPending ==
    [][\A s \in Socks :
         /\ (pc[s] = "pending_find" /\ Steps(s) /\ ws[s] = "open")
              => /\ frames'[s] = frames[s] (+) SetToBag({ReplayFrame(d) : d \in Undelivered(s)})
                 /\ messages' = messages
                 /\ IF Undelivered(s) = {}
                    THEN pc'[s] = "unread"
                    ELSE /\ pc'[s] = "pending_update"
                         /\ Len(loc'[s].pend) = Cardinality(Undelivered(s))
                         /\ ListedIds(s)' = {d.id : d \in Undelivered(s)}
                         /\ \A i, j \in DOMAIN loc'[s].pend :
                              i < j => Msg(loc'[s].pend[i]).timestamp
                                         <= Msg(loc'[s].pend[j]).timestamp
         /\ (pc[s] = "pending_update" /\ Steps(s))
              => /\ messages' = {IF d.id \in ListedIds(s)
                                 THEN [d EXCEPT !.delivered = TRUE] ELSE d : d \in messages}
                 /\ \A m \in ListedIds(s) : HasMsg(m) => BagIn(ReplayFrame(Msg(m)), frames[s])
                 /\ frames' = frames
                 /\ pc'[s] = "unread"]_vars

\* A replay has pushed two messages of different timestamps, the older one
\* first, and is at its update.
C29_Witness ==
    \E s \in Socks :
      /\ pc[s] = "pending_update"
      /\ Len(loc[s].pend) = 2
      /\ Msg(loc[s].pend[1]).timestamp < Msg(loc[s].pend[2]).timestamp

\* --------------------------------------------------------------- delete
DeleteEvent(s) == Frame("message.delete", loc[s].mid, owner(s), "deleted")

\* The steps of a delete past its sender check: delete_one removes the one
\* document and, having removed none, answers server_error and publishes
\* nothing; then one event goes to the sender's topic and one to the
\* receiver's.
DeletePath(s) ==
    /\ (pc[s] = "delete_one" /\ Steps(s))
         => /\ pubs' = pubs
            /\ IF HasMsg(loc[s].mid)
               THEN /\ Msg(loc[s].mid).sender = owner(s)
                    /\ messages' = messages \ {Msg(loc[s].mid)}
                    /\ pc'[s] = "delete_pub_sender"
               ELSE /\ messages' = messages
                    /\ pc'[s] = "loop"
    /\ (pc[s] = "delete_pub_sender" /\ Steps(s))
         => /\ pubs' = pubs (+) One(PubRecord(owner(s), DeleteEvent(s)))
            /\ pc'[s] = "delete_pub_receiver"
            /\ messages' = messages
    /\ (pc[s] = "delete_pub_receiver" /\ Steps(s))
         => /\ pubs' = pubs (+) One(PubRecord(loc[s].st, DeleteEvent(s)))
            /\ pc'[s] = "loop"
            /\ messages' = messages

\* The ids of the messages a message.list of room, page p in pages of n gets
\* for identity email in the current state.
Listed(email, room, p, n) ==
    {d.id : d \in MessageListAnswer(email,
                     ListEnvelope("message.list", room, p, n, "", FALSE)).msgs}

\* C30, as claimed: a delete by the sender removes the document and
\* publishes one event to each of the two topics, of two interleaved deletes
\* only one publishes, and from then on no message.list shows the message.
C30_DeletedIsGone ==
    [][/\ \A s \in Socks : DeletePath(s)
       /\ \A email \in Users : \A room \in RoomIds : \A p \in 0..MaxMsgs :
            \A n \in 1..MaxMsgs :
              Listed(email, room, p, n)' \subseteq {d.id : d \in messages'}]_vars

\* ----------------------------------------------------------------- edit
EditEvent(s) == Frame("message.edit", loc[s].mid, owner(s), "edited")

\* The message an edit of s names is stored, was sent by the caller, and the
\* update changes it.
EditApplies(s) ==
    /\ HasMsg(loc[s].mid)
    /\ Msg(loc[s].mid).sender = owner(s)
    /\ \/ Msg(loc[s].mid).message # "edited"
       \/ ~Msg(loc[s].mid).edited
       \/ Msg(loc[s].mid).edited_at # loc[s].ts

\* The update of an edit by the sender: the text, the edited flag and the
\* time of the edit are set on the one document, every other field and every
\* other document stay, and nothing is published by the update.
EditWrites(s) ==
    (pc[s] = "edit_update" /\ Steps(s) /\ EditApplies(s))
      => /\ \E d \in messages' :
              /\ d.id = loc[s].mid
              /\ d.message = "edited" /\ d.edited /\ d.edited_at = loc[s].ts
              /\ \A f \in {"id", "room_id", "sender", "receiver", "timestamp",
                           "is_read", "delivered", "read_at"} : d[f] = Msg(loc[s].mid)[f]
              /\ messages' = (messages \ {Msg(loc[s].mid)}) \cup {d}
         /\ rooms' = rooms
         /\ pubs' = pubs
         /\ frames' = frames
         /\ pc'[s] = "edit_find"

\* The two publishes of an edit: one event on the sender's topic, then one
\* on the receiver's, and nothing written to the store.
EditPublishes(s) ==
    /\ (pc[s] = "edit_pub_sender" /\ Steps(s))
         => /\ pubs' = pubs (+) One(PubRecord(owner(s), EditEvent(s)))
            /\ messages' = messages
            /\ pc'[s] = "edit_pub_receiver"
    /\ (pc[s] = "edit_pub_receiver" /\ Steps(s))
         => /\ pubs' = pubs (+) One(PubRecord(loc[s].st, EditEvent(s)))
            /\ messages' = messages
            /\ pc'[s] = "loop"

\* C31, as claimed: an edit by the message's sender sets the text, edited
\* and edited_at and leaves the other fields as they were, and the handler
\* then goes on to publish one message.edit event on the sender's topic and
\* one on the receiver's.
C31_EditSetsAndRepublishes ==
    [][\A s \in Socks :
         /\ EditWrites(s)
         /\ EditPublishes(s)
         /\ (pc[s] = "edit_find" /\ Steps(s))
              => /\ pc'[s] = "edit_pub_sender"
                 /\ loc'[s].st = Msg(loc[s].mid).receiver
                 /\ messages' = messages
                 /\ pubs' = pubs]_vars

\* ------------------------------------------------- typing, status, ping
\* The two stores, the presence keys, the cached lists and the registry are
\* as they were.
NothingStored ==
    /\ messages' = messages
    /\ rooms' = rooms
    /\ user_status' = user_status
    /\ user_last_seen' = user_last_seen
    /\ list_cache' = list_cache
    /\ active_connections' = active_connections
    /\ buckets' = buckets

NothingPublished == pubs' = pubs /\ inbox' = inbox

\* The step writes the one frame fr to the socket of s and no frame to any
\* other socket.
RepliesOnly(s, fr) ==
    /\ frames'[s] = frames[s] (+) One(fr)
    /\ \A t \in Socks \ {s} : frames'[t] = frames[t]

TypingEvent(s) == Frame("message.type", env[s].room_id, owner(s), "typing")

\* C32: taking and handling a message.type, a user.status or a ping changes
\* no message, room, presence key, cached list or registry entry.  A ping is
\* answered with one pong on the caller's socket and a user.status with one
\* user.status frame about the identity asked for, both without a publish;
\* a message.type writes no frame and publishes one event, on the topic of
\* the receiver it names.
C32_RelayAndRepliesOnly ==
    [][\A s \in Socks :
         /\ Recv(s, PingEnv)
              => /\ NothingStored /\ NothingPublished
                 /\ RepliesOnly(s, Frame("pong", NoId, "", ""))
                 /\ pc'[s] = "loop"
         /\ \A e \in {x \in TypeEnvs \cup StatusEnvs : x.ok} :
              Recv(s, e) => /\ NothingStored /\ NothingPublished
                            /\ frames' = frames
                            /\ pc'[s] = IF e.source = "message.type"
                                        THEN "type_publish" ELSE "status_get"
         /\ (pc[s] = "type_publish" /\ Steps(s))
              => /\ NothingStored
                 /\ frames' = frames
                 /\ pubs' = pubs (+) One(PubRecord(env[s].receiver, TypingEvent(s)))
                 /\ \A t \in Socks :
                      inbox'[t] = IF owner(t) = env[s].receiver
                                  THEN Append(inbox[t], TypingEvent(s)) ELSE inbox[t]
                 /\ pc'[s] = "loop"
         /\ (pc[s] = "status_get" /\ Steps(s))
              => /\ NothingStored /\ NothingPublished
                 /\ frames' = frames
                 /\ pc'[s] = "status_last_seen"
         /\ (pc[s] = "status_last_seen" /\ Steps(s))
              => /\ NothingStored /\ NothingPublished
                 /\ \E fr \in BagToSet(frames'[s]) :
                      /\ fr.kind = "user.status" /\ fr.who = env[s].email
                      /\ RepliesOnly(s, fr)
                 /\ pc'[s] = "loop"]_vars

\* One client has sent a typing event to the other identity, a ping and a
\* status request, and all three have been handled.
C32_Witness ==
    \E s \in Socks : \E u \in Users \ {owner(s)} :
      /\ pc[s] = "loop"
      /\ BagIn(PubRecord(u, Frame("message.type", NoId, owner(s), "typing")), pubs)
      /\ BagIn(Frame("pong", NoId, "", ""), frames[s])
      /\ \E fr \in BagToSet(frames[s]) : fr.kind = "user.status"

\* --------------------------------------------------------- room history
\* The messages stored under room in which email is sender or receiver.
PartyTo(email, room) ==
    {d \in messages : d.room_id = room /\ email \in {d.sender, d.receiver}}

\* C33, as claimed: whatever page of whatever room an identity asks for, the
\* response carries only messages of that room which the identity sent or
\* received, oldest first; an identity that is party to no message of the
\* room gets an empty page with total 0.
C33_OnlyOwnRoomMessages ==
    \A email \in Users : \A room \in RoomIds : \A p \in 0..MaxMsgs : \A n \in 1..MaxMsgs :
      LET ans == MessageListAnswer(email, ListEnvelope("message.list", room, p, n, "", FALSE))
      IN /\ \A i \in DOMAIN ans.order :
              /\ ans.order[i].room_id = room
              /\ email \in {ans.order[i].sender, ans.order[i].receiver}
         /\ ans.msgs = {ans.order[i] : i \in DOMAIN ans.order}
         /\ \A i, j \in DOMAIN ans.order :
              i < j => ans.order[i].timestamp <= ans.order[j].timestamp
         /\ PartyTo(email, room) = {} => (ans.order = <<>> /\ ans.total = 0)

\* ------------------------------------------------------ listener failure
\* C34: a bus error under the listener of a connection stops that listener
\* and changes nothing else: the connection stays registered and open and
\* its handler where it was.  From then on the listener stays stopped (no
\* resubscription), nothing reaches its pubsub, every frame written to the
\* socket comes from the connection's own handler, and the receive loop of
\* the open socket still takes the next envelope.
C34_ListenerFailureLeavesConnection ==
    [][\A s \in Socks :
         /\ ListenFail(s)
              => /\ active_connections' = active_connections
                 /\ buckets' = buckets
                 /\ ws' = ws
                 /\ pc' = pc /\ env' = env /\ loc' = loc
                 /\ frames' = frames
                 /\ \A t \in Socks \ {s} : listener'[t] = listener[t]
         /\ listener[s] = "stopped"
              => /\ listener'[s] = "stopped"
                 /\ inbox'[s] = <<>>
                 /\ Registered(s)' /\ ws'[s] = "open"
                 /\ frames'[s] # frames[s] => (Took(s) \/ Steps(s))
                 /\ (pc[s] = "loop" /\ nenv < MaxEnv) => ENABLED Recv(s, PingEnv)]_vars

\* The listener of a connection has stopped; a message another identity
\* sent to the connection's identity was published and set delivered, and
\* never reached the socket, which is registered, open, and was answered a
\* ping.
C34_Witness ==
    \E s \in Socks :
      /\ listener[s] = "stopped"
      /\ Registered(s) /\ ws[s] = "open" /\ pc[s] = "loop"
      /\ inbox[s] = <<>>
      /\ BagIn(Frame("pong", NoId, "", ""), frames[s])
      /\ \E d \in messages :
           /\ d.receiver = owner(s) /\ d.sender # owner(s) /\ d.delivered
           /\ BagIn(PubRecord(owner(s), Frame("message.send", d.id, d.sender, "live")), pubs)
           /\ ~BagIn(Frame("message.send", d.id, d.sender, "live"), frames[s])

\* ------------------------------------------------------- delivered once
\* How many times the socket of s was written message m of sender u: by a
\* listener forwarding the publish, and by the replay of a handshake.
TimesLive(s, m, u) == CopiesIn(Frame("message.send", m, u, "live"), frames[s])
TimesReplayed(s, m, u) == CopiesIn(Frame("message.send", m, u, "replay"), frames[s])

\* C35, as claimed: a socket of the receiver is written a message of another
\* identity at most once, by the live fan-out or by the replay of its
\* handshake, never by both.
C35_DeliveredAtMostOnce ==
    \A s \in Socks : \A m \in MsgIds : \A u \in Users \ {owner(s)} :
      TimesLive(s, m, u) + TimesReplayed(s, m, u) <= 1

\* ------------------------------------------------------- refused sends
SendErrors == {"validation_error", "permission_denied", "file_error", "server_error"}

\* The step writes an error frame of a message.send to the socket of s.
AnswersSendError(s) ==
    \E type \in SendErrors : frames'[s] = frames[s] (+) One(ErrorFrame(type))

\* C36, as claimed: a message.send answered with an error frame when it is
\* taken has changed nothing, and one answered with an error frame later on
\* has stored no message, echoed nothing and published nothing.
C36_RefusedSendHasNoEffect ==
    [][\A s \in Socks :
         /\ \A e \in SendEnvs(owner(s)) :
              (Recv(s, e) /\ AnswersSendError(s))
                => /\ messages' = messages /\ rooms' = rooms
                   /\ pubs' = pubs /\ inbox' = inbox
         /\ (pc[s] \in SendPcs /\ AnswersSendError(s))
              => /\ ~HasMsg(loc[s].mid)'
                 /\ ~BagIn(LiveFrame(s), frames[s])
                 /\ ~BagIn(PubRecord(env[s].receiver, LiveFrame(s)), pubs')]_vars

\* ---------------------------------------------------- messages and rooms
\* C37, as claimed: the room_id of every stored message is the id of a
\* stored room whose participants are the message's sender and receiver.
C37_MessageRoomExists ==
    \A d \in messages :
      \E r \in rooms : r.id = d.room_id /\ {r.p1, r.p2} = {d.sender, d.receiver}

\* ------------------------------------------------- presence at the end
\* Identity u was accepted on some socket, and the handler of every socket
\* has returned: no connection of u is left and nothing runs any more that
\* writes a presence key.
AllEnded == \A s \in Socks : pc[s] = "done"
WasConnected(u) == \E s \in Socks : owner(s) = u /\ connid[s] # NoId

\* C38, as claimed, in the form a finite run refutes: when the last
\* connection of an identity has ended, and nothing is left to run, the
\* identity's presence key says offline, whichever way its connections
\* ended.
C38_OfflineAfterLastConnection ==
    AllEnded => \A u \in Users : WasConnected(u) => user_status[u] = "offline"

\* --------------------------------------------------------- global topic
OfflineFrame(u) == Frame("user.status", NoId, u, "offline")

\* C39: the offline event of a disconnect is published on the global topic
\* and reaches no pubsub and no socket; whatever the pubsub of a connection
\* holds was published on the topic of the connection's own identity.
C39_GlobalEventsReachNoSocket ==
    [][/\ \A s \in Socks :
            (pc[s] = "disc_publish" /\ Steps(s))
              => /\ pubs' = pubs (+) One(PubRecord(GlobalTopic, OfflineFrame(owner(s))))
                 /\ inbox' = inbox
                 /\ frames' = frames
       /\ \A t \in Socks : \A u \in Users :
            /\ ~BagIn(OfflineFrame(u), frames'[t])
            /\ \A i \in DOMAIN inbox'[t] :
                 /\ inbox'[t][i] # OfflineFrame(u)
                 /\ BagIn(PubRecord(owner(t), inbox'[t][i]), pubs')]_vars

\* A client that sent a message to another identity has disconnected and
\* its offline event is published; the other identity's connection, which
\* got the message through its listener, is open and listening and was
\* pushed nothing else.
C39_Witness ==
    \E s, t \in Socks :
      /\ owner(t) # owner(s)
      /\ endedBy[s] = "disconnect"
      /\ BagIn(PubRecord(GlobalTopic, OfflineFrame(owner(s))), pubs)
      /\ listener[t] = "listening" /\ ws[t] = "open" /\ pc[t] = "loop"
      /\ inbox[t] = <<>>
      /\ \E m \in MsgIds : BagIn(Frame("message.send", m, owner(s), "live"), frames[t])

\* ------------------------------------------------------ listener target
\* C40, as claimed: a step of the listener spawned for the connection of s
\* writes to no socket but that of s, also after s was unregistered and
\* later connections of its identity have registered.
C40_ListenerWritesOwnSocketOnly ==
    [][\A s \in Socks : Listen(s) => \A t \in Socks \ {s} : frames'[t] = frames[t]]_vars

====
